---- MODULE Spec2Model ----
(***************************************************************************)
(* Record-integrity subsystem of the hospital management backend:          *)
(* canonical hashing (hash_builder.py), the ledger client with its         *)
(* simulation and external backends (fabric_client.py), the verification   *)
(* service (integrity_service.py) and the orchestration service            *)
(* (blockchain_service.py).                                                *)
(*                                                                         *)
(* Conventions.  Python str and bytes values are TLA+ strings.  A slot     *)
(* that may hold None or values of several Python types holds a tagged     *)
(* record: None, PyStr(s), PyInt(i), PyBool(b), PyList(seq).  A Python     *)
(* dict is a TLA+ function on its keys.  SHA-256 is idealised as an        *)
(* injective function of its input ("sha256(" \o input \o ")").            *)
(***************************************************************************)
EXTENDS Integers, Sequences, FiniteSets, TLC

VARIABLES
    simulation_mode,    \* FabricClient.simulation_mode
    ledger,             \* FabricClient._simulated_ledger
    db,                 \* table record_blockchain_map, keyed by <<record_type, record_id>>
    now,                \* the wall clock read by datetime.utcnow()
    appended,           \* history variable: the entries appended to each record key, in order
    last,               \* the last call of the service: its arguments, what it saw, its result
    running             \* the calls of _simulate_add_record in progress, one per thread

vars == <<simulation_mode, ledger, db, now, appended, last, running>>

-----------------------------------------------------------------------------
(* Python values *)

None == [t |-> "none"]
PyStr(s) == [t |-> "str", s |-> s]
PyInt(i) == [t |-> "int", i |-> i]
PyBool(b) == [t |-> "bool", b |-> b]
PyList(xs) == [t |-> "list", xs |-> xs]
PyBytes(by) == [t |-> "bytes", by |-> by]

EmptyDict == [k \in {} |-> None]

\* dict.get(key, default)
DictGet(d, key, default) == IF key \in DOMAIN d THEN d[key] ELSE default

\* dict.get(key) of a dict of str: PyStr(d[key]), or None
OptGet(d, key) == IF key \in DOMAIN d THEN PyStr(d[key]) ELSE None

\* d with d[key] = value
DictSet(d, key, value) == [k \in DOMAIN d \cup {key} |-> IF k = key THEN value ELSE d[k]]

\* bool(v) of an Optional[str], an Optional[bytes] or an Optional[dict]
Truthy(v) ==
    IF "t" \notin DOMAIN v THEN DOMAIN v # {}
    ELSE \/ v.t = "str" /\ v.s # ""
         \/ v.t = "bytes" /\ v.by # ""

\* isinstance(v, dict): a dict of the model has no key "t"
IsDict(v) == "t" \notin DOMAIN v

-----------------------------------------------------------------------------
(* Strings *)

Whitespace == {" ", "\t", "\n", "\r", "\f"}

RECURSIVE LStrip(_, _)
LStrip(s, chars) ==
    IF Len(s) > 0 /\ SubSeq(s, 1, 1) \in chars
    THEN LStrip(SubSeq(s, 2, Len(s)), chars)
    ELSE s

RECURSIVE RStrip(_, _)
RStrip(s, chars) ==
    IF Len(s) > 0 /\ SubSeq(s, Len(s), Len(s)) \in chars
    THEN RStrip(SubSeq(s, 1, Len(s) - 1), chars)
    ELSE s

\* str.strip(chars)
Strip(s, chars) == RStrip(LStrip(s, chars), chars)

\* sep.join(parts)
RECURSIVE Join(_, _)
Join(parts, sep) ==
    IF Len(parts) = 0 THEN ""
    ELSE IF Len(parts) = 1 THEN parts[1]
    ELSE parts[1] \o sep \o Join(Tail(parts), sep)

\* Code point order of the characters the inputs use.
Alphabet == " 0123456789ABCDEFGHIJKLMNOPQRSTUVWXYZ_abcdefghijklmnopqrstuvwxyz"

CharIndex(c) == CHOOSE i \in 1..Len(Alphabet) : SubSeq(Alphabet, i, i) = c

\* a < b on str
RECURSIVE StrLess(_, _)
StrLess(a, b) ==
    IF Len(b) = 0 THEN FALSE
    ELSE IF Len(a) = 0 THEN TRUE
    ELSE IF SubSeq(a, 1, 1) = SubSeq(b, 1, 1)
         THEN StrLess(SubSeq(a, 2, Len(a)), SubSeq(b, 2, Len(b)))
         ELSE CharIndex(SubSeq(a, 1, 1)) < CharIndex(SubSeq(b, 1, 1))

\* a < b on tuples of str
RECURSIVE TupleLess(_, _)
TupleLess(a, b) ==
    IF Len(b) = 0 THEN FALSE
    ELSE IF Len(a) = 0 THEN TRUE
    ELSE IF a[1] = b[1] THEN TupleLess(Tail(a), Tail(b))
    ELSE StrLess(a[1], b[1])

\* sorted(xs, key=...), stable, on the sequence of [key |-> key(x), item |-> x]
RECURSIVE InsertSorted(_, _)
InsertSorted(sorted, x) ==
    IF Len(sorted) = 0 THEN <<x>>
    ELSE IF TupleLess(x.key, sorted[Len(sorted)].key)
         THEN Append(InsertSorted(SubSeq(sorted, 1, Len(sorted) - 1), x), sorted[Len(sorted)])
         ELSE Append(sorted, x)

RECURSIVE SortKeyed(_)
SortKeyed(xs) ==
    IF Len(xs) = 0 THEN <<>>
    ELSE InsertSorted(SortKeyed(SubSeq(xs, 1, Len(xs) - 1)), xs[Len(xs)])

-----------------------------------------------------------------------------
(* hash_builder.py *)

\* json.dumps of a scalar (the inputs hold no character that JSON escapes)
JsonScalar(v) ==
    CASE v.t = "none" -> "null"
      [] v.t = "bool" -> IF v.b THEN "true" ELSE "false"
      [] v.t = "int" -> ToString(v.i)
      [] v.t = "str" -> "\"" \o v.s \o "\""

\* HashBuilder._normalize_value (the inputs hold no float and no dict)
_normalize_value(value) ==
    CASE value.t = "none" -> ""
      [] value.t = "bool" -> IF value.b THEN "true" ELSE "false"
      [] value.t = "int" -> ToString(value.i)
      [] value.t = "list" ->
            "[" \o Join([i \in 1..Len(value.xs) |-> JsonScalar(value.xs[i])], ",") \o "]"
      [] value.t = "str" -> Strip(value.s, Whitespace)

\* HashBuilder._build_canonical_string
_build_canonical_string(fields, field_order) ==
    Join([i \in 1..Len(field_order) |->
            field_order[i] \o "=" \o _normalize_value(DictGet(fields, field_order[i], None))],
         "|")

\* HashBuilder.generate_hash
generate_hash(data) == "sha256(" \o data \o ")"

\* HashBuilder.generate_file_hash
generate_file_hash(file_data) == "sha256(" \o file_data \o ")"

PatientFields ==
    <<"mrn", "first_name", "last_name", "date_of_birth", "gender",
      "phone", "email", "national_id", "blood_group", "address_line1",
      "city", "state", "postal_code", "country">>

build_patient_hash(patient) ==
    generate_hash(_build_canonical_string(patient, PatientFields))

VisitFields ==
    <<"patient_id", "doctor_id", "department_id", "visit_type",
      "admission_date", "chief_complaint", "room_number", "bed_number",
      "ward", "status">>

build_visit_hash(visit) ==
    generate_hash(_build_canonical_string(visit, VisitFields))

PrescriptionFields == <<"patient_id", "doctor_id", "visit_id", "notes", "prescription_date">>

MedicationFields ==
    <<"medicine_name", "dosage", "frequency", "duration", "instructions", "quantity">>

\* key=lambda x: x.get('medicine_name', '') (the inputs' names are str)
MedicationKey(med) == <<DictGet(med, "medicine_name", PyStr("")).s>>

build_prescription_hash(prescription, medications) ==
    LET base_canonical == _build_canonical_string(prescription, PrescriptionFields)
        meds == SortKeyed([i \in 1..Len(medications) |->
                    [key |-> MedicationKey(medications[i]), item |-> medications[i]]])
        med_parts ==
            [i \in 1..Len(meds) |-> _build_canonical_string(meds[i].item, MedicationFields)]
        medications_str == Join(med_parts, ";")
    IN generate_hash(base_canonical \o "|medications=[" \o medications_str \o "]")

InvoiceFields ==
    <<"patient_id", "visit_id", "invoice_number", "due_date", "notes", "invoice_date">>

ItemFields == <<"category", "description", "quantity", "unit_price">>

\* key=lambda x: (x.get('category', ''), x.get('description', ''))
ItemKey(item) ==
    <<DictGet(item, "category", PyStr("")).s, DictGet(item, "description", PyStr("")).s>>

build_invoice_hash(invoice, items) ==
    LET base_canonical == _build_canonical_string(invoice, InvoiceFields)
        its == SortKeyed([i \in 1..Len(items) |->
                    [key |-> ItemKey(items[i]), item |-> items[i]]])
        item_parts == [i \in 1..Len(its) |-> _build_canonical_string(its[i].item, ItemFields)]
        items_str == Join(item_parts, ";")
    IN generate_hash(base_canonical \o "|items=[" \o items_str \o "]")

AppointmentFields ==
    <<"patient_id", "doctor_id", "department_id", "appointment_date",
      "appointment_time", "visit_type", "reason", "status">>

build_appointment_hash(appointment) ==
    generate_hash(_build_canonical_string(appointment, AppointmentFields))

ReportFields ==
    <<"patient_id", "visit_id", "report_type", "title", "description",
      "ordering_doctor_id", "department_id", "report_date", "result_summary">>

build_report_form_hash(report) ==
    generate_hash(_build_canonical_string(report, ReportFields))

\* A variant of build_report_hash_payload that files the form digest under the
\* key of the simple types
ReportPayloadUnderHash(form_hash, file_hash, ipfs_hash) == [hash |-> form_hash]

\* HashBuilder.build_report_hash_payload; file_hash and ipfs_hash are Optional[str]
build_report_hash_payload(form_hash, file_hash, ipfs_hash) ==
    LET p1 == [formHash |-> form_hash]
        p2 == IF Truthy(file_hash) THEN DictSet(p1, "fileHash", file_hash.s) ELSE p1
    IN IF Truthy(ipfs_hash) THEN DictSet(p2, "ipfsHash", ipfs_hash.s) ELSE p2

\* HashBuilder.build_simple_hash_payload
build_simple_hash_payload(hash_value) == [hash |-> hash_value]

-----------------------------------------------------------------------------
(* The clock and the operating system's random bytes *)

MaxClock == 1

\* datetime.isoformat() + 'Z' and strftime('%Y%m%d%H%M%S') of the instant t
IsoFormat(t) == "T" \o ToString(t) \o "Z"
Strftime(t) == "T" \o ToString(t)

\* os.urandom(n).hex(), for the two calls of fabric_client.py
RandomHex4 == {"0a0a0a0a"}
RandomHex8 == {"0a0a0a0a0a0a0a0a"}

-----------------------------------------------------------------------------
(* fabric_client.py: the simulation backend *)

\* the record _simulate_add_record builds; metadata is Optional[dict]
SimulatedRecord(record_id, record_type, patient_id, hash_payload, metadata, t, rnd) ==
    [recordID |-> record_id,
     recordType |-> record_type,
     patientID |-> patient_id,
     hashPayload |-> hash_payload,
     metadata |-> IF metadata = None THEN EmptyDict ELSE metadata,
     timestamp |-> IsoFormat(t),
     txID |-> "sim-" \o Strftime(t) \o "-" \o rnd]

\* A faulty variant: the superseded entry goes to the front of history
SimulatedLedgerAddNewestFirst(l, record) ==
    IF record.recordID \notin DOMAIN l
    THEN DictSet(l, record.recordID, [current |-> record, history |-> <<>>])
    ELSE DictSet(l, record.recordID,
                 [current |-> record,
                  history |-> <<l[record.recordID].current>> \o l[record.recordID].history])

\* A faulty variant: the history is cut down to the entry just superseded
SimulatedLedgerAddForgetful(l, record) ==
    IF record.recordID \notin DOMAIN l
    THEN DictSet(l, record.recordID, [current |-> record, history |-> <<>>])
    ELSE DictSet(l, record.recordID,
                 [current |-> record, history |-> <<l[record.recordID].current>>])

\* A faulty variant: the ledger is rebuilt around the key just written
SimulatedLedgerAddAlone(l, record) ==
    IF record.recordID \notin DOMAIN l
    THEN [k \in {record.recordID} |-> [current |-> record, history |-> <<>>]]
    ELSE [k \in {record.recordID} |->
             [current |-> record,
              history |-> Append(l[record.recordID].history, l[record.recordID].current)]]

\* the ledger after _simulate_add_record has stored `record`
SimulatedLedgerAdd(l, record) ==
    IF record.recordID \notin DOMAIN l
    THEN DictSet(l, record.recordID, [current |-> record, history |-> <<>>])
    ELSE DictSet(l, record.recordID,
                 [current |-> record,
                  history |-> Append(l[record.recordID].history, l[record.recordID].current)])

\* A faulty variant: the entry is acknowledged and not written
SimulateAddWithoutWrite(l, record_id, record_type, patient_id, hash_payload, metadata, t, rnd) ==
    LET record == SimulatedRecord(record_id, record_type, patient_id, hash_payload,
                                  metadata, t, rnd)
    IN [ledger |-> l, success |-> TRUE, tx_id |-> record.txID, error |-> "",
        record |-> record]

\* FabricClient._simulate_add_record: the new ledger and the returned tuple
_simulate_add_record(l, record_id, record_type, patient_id, hash_payload, metadata, t, rnd) ==
    LET record == SimulatedRecord(record_id, record_type, patient_id, hash_payload,
                                  metadata, t, rnd)
    IN [ledger |-> SimulatedLedgerAdd(l, record),
        success |-> TRUE, tx_id |-> record.txID, error |-> "", record |-> record]

\* A faulty variant: the oldest entry of the key is returned, not the current one
SimulateGetOldestRecord(l, record_id) ==
    IF record_id \in DOMAIN l
    THEN [success |-> TRUE,
          data |-> Head(Append(l[record_id].history, l[record_id].current)),
          error |-> ""]
    ELSE [success |-> FALSE, data |-> None, error |-> "Record not found"]

\* FabricClient._simulate_get_record
_simulate_get_record(l, record_id) ==
    IF record_id \in DOMAIN l
    THEN [success |-> TRUE, data |-> l[record_id].current, error |-> ""]
    ELSE [success |-> FALSE, data |-> None, error |-> "Record not found"]

\* A faulty variant: the current entry leads the trail
SimulateGetHistoryCurrentFirst(l, record_id) ==
    IF record_id \in DOMAIN l
    THEN [success |-> TRUE,
          data |-> <<l[record_id].current>> \o l[record_id].history,
          error |-> ""]
    ELSE [success |-> FALSE, data |-> <<>>, error |-> "Record not found"]

\* FabricClient._simulate_get_history
_simulate_get_history(l, record_id) ==
    IF record_id \in DOMAIN l
    THEN [success |-> TRUE,
          data |-> Append(l[record_id].history, l[record_id].current),
          error |-> ""]
    ELSE [success |-> FALSE, data |-> <<>>, error |-> "Record not found"]

\* A faulty variant: the entries of every patient are returned
SimulateGetByPatientUnfiltered(l, patient_id, order) ==
    [success |-> TRUE,
     data |-> PyList([i \in 1..Len(order) |-> l[order[i]].current]),
     error |-> ""]

\* FabricClient._simulate_get_by_patient; `order` lists the keys of the ledger
\* in the order the dict holds them
_simulate_get_by_patient(l, patient_id, order) ==
    LET OfPatient(record_id) == l[record_id].current.patientID = patient_id
        keys == SelectSeq(order, OfPatient)
    IN [success |-> TRUE,
        data |-> PyList([i \in 1..Len(keys) |-> l[keys[i]].current]),
        error |-> ""]

-----------------------------------------------------------------------------
(* fabric_client.py: the external backend.  A call of the peer process ends *)
(* in one of: exit with a return code, standard output and standard error; *)
(* subprocess.TimeoutExpired; another exception (the binary is missing).   *)

ProcExit(rc, out, err) == [kind |-> "exit", returncode |-> rc, stdout |-> out, stderr |-> err]
ProcTimeout == [kind |-> "timeout"]
ProcError(msg) == [kind |-> "error", msg |-> msg]
NoProc == [kind |-> "none"]

UpperCase == "ABCDEFGHIJKLMNOPQRSTUVWXYZ"
LowerCase == "abcdefghijklmnopqrstuvwxyz"

LowerChar(c) ==
    IF \E i \in 1..Len(UpperCase) : SubSeq(UpperCase, i, i) = c
    THEN LET i == CHOOSE j \in 1..Len(UpperCase) : SubSeq(UpperCase, j, j) = c
         IN SubSeq(LowerCase, i, i)
    ELSE c

\* str.lower()
RECURSIVE Lower(_)
Lower(s) == IF Len(s) = 0 THEN "" ELSE LowerChar(SubSeq(s, 1, 1)) \o Lower(SubSeq(s, 2, Len(s)))

\* sub in s
Contains(s, sub) == \E i \in 1..(Len(s) - Len(sub) + 1) : SubSeq(s, i, i + Len(sub) - 1) = sub

\* str.split(): the maximal runs of non-whitespace characters
RECURSIVE SplitFrom(_, _)
SplitFrom(s, word) ==
    IF Len(s) = 0 THEN (IF word = "" THEN <<>> ELSE <<word>>)
    ELSE IF SubSeq(s, 1, 1) \in Whitespace
         THEN (IF word = "" THEN <<>> ELSE <<word>>) \o SplitFrom(SubSeq(s, 2, Len(s)), "")
         ELSE SplitFrom(SubSeq(s, 2, Len(s)), word \o SubSeq(s, 1, 1))

Split(s) == SplitFrom(s, "")

\* FabricClient._extract_tx_id; t and rnd are the clock and the random bytes of the fallback
_extract_tx_id(output, t, rnd) ==
    LET parts == Split(output)
        hits == {i \in 1..Len(parts) : Contains(Lower(parts[i]), "txid") /\ i + 1 <= Len(parts)}
    IN IF Contains(Lower(output), "txid") /\ hits # {}
       THEN Strip(parts[(CHOOSE i \in hits : \A j \in hits : i <= j) + 1], {"[", "]"})
       ELSE Strftime(t) \o "-" \o rnd

\* A variant of _invoke_chaincode that runs the peer process a second time when
\* the first run has failed, the second run exiting with code 0
InvokeChaincodeRetries(proc, t, rnd) ==
    IF proc.kind = "exit" /\ proc.returncode = 0
    THEN [success |-> TRUE, tx_id |-> _extract_tx_id(proc.stdout, t, rnd), error |-> ""]
    ELSE [success |-> TRUE, tx_id |-> Strftime(t) \o "-" \o rnd, error |-> ""]

\* FabricClient._invoke_chaincode
_invoke_chaincode(proc, t, rnd) ==
    CASE proc.kind = "exit" /\ proc.returncode = 0 ->
            [success |-> TRUE, tx_id |-> _extract_tx_id(proc.stdout, t, rnd), error |-> ""]
      [] proc.kind = "exit" /\ proc.returncode # 0 ->
            [success |-> FALSE, tx_id |-> "",
             error |-> "Chaincode invoke failed: " \o proc.stderr]
      [] proc.kind = "timeout" ->
            [success |-> FALSE, tx_id |-> "", error |-> "Chaincode invoke timeout"]
      [] proc.kind = "error" ->
            [success |-> FALSE, tx_id |-> "", error |-> "Chaincode invoke error: " \o proc.msg]

\* FabricClient._query_chaincode
_query_chaincode(proc) ==
    CASE proc.kind = "exit" /\ proc.returncode = 0 ->
            [success |-> TRUE, result |-> Strip(proc.stdout, Whitespace), error |-> ""]
      [] proc.kind = "exit" /\ proc.returncode # 0 ->
            [success |-> FALSE, result |-> "",
             error |-> "Chaincode query failed: " \o proc.stderr]
      [] proc.kind = "timeout" ->
            [success |-> FALSE, result |-> "", error |-> "Chaincode query timeout"]
      [] proc.kind = "error" ->
            [success |-> FALSE, result |-> "", error |-> "Chaincode query error: " \o proc.msg]

\* json.loads of the documents the external process prints; any other text is
\* not JSON.  LedgerDocument is what a chaincode prints for a stored record.
LedgerDocument(hash_payload) ==
    [recordID |-> "doc", hashPayload |-> hash_payload,
     timestamp |-> "T0Z", txID |-> "tx-doc"]

PatientDocument ==
    LedgerDocument([hash |->
        build_patient_hash([mrn |-> PyStr("M1"), first_name |-> PyStr("Ann")])])

ReportDocument ==
    LedgerDocument([formHash |-> build_report_form_hash([title |-> PyStr("CBC")]),
                    fileHash |-> generate_file_hash("AB")])

JsonLoads(text) ==
    CASE text = "null" -> [ok |-> TRUE, value |-> None]
      [] text = "[]" -> [ok |-> TRUE, value |-> PyList(<<>>)]
      [] text = "{}" -> [ok |-> TRUE, value |-> EmptyDict]
      [] text = "{patient}" -> [ok |-> TRUE, value |-> PatientDocument]
      [] text = "{report}" -> [ok |-> TRUE, value |-> ReportDocument]
      [] OTHER -> [ok |-> FALSE]

\* The credential files FabricClient.__init__ reads from config.py (both paths
\* default to ''), and whether a file exists at each path
FabricConfigs ==
    [cert_path : {"", "/crypto/cert.pem"}, key_path : {"", "/crypto/key.pem"},
     cert_exists : BOOLEAN, key_exists : BOOLEAN]

\* FabricClient.is_configured
is_configured(sim, cfg) ==
    IF sim THEN TRUE
    ELSE /\ cfg.cert_path # "" /\ cfg.cert_exists
         /\ cfg.key_path # "" /\ cfg.key_exists

\* FabricClient.add_record_hash: the new simulated ledger and the returned tuple
add_record_hash(l, record_id, record_type, patient_id, hash_payload, metadata, sim, t, rnd, proc) ==
    IF sim
    THEN _simulate_add_record(l, record_id, record_type, patient_id, hash_payload,
                              metadata, t, rnd)
    ELSE LET r == _invoke_chaincode(proc, t, rnd)
         IN [ledger |-> l, success |-> r.success, tx_id |-> r.tx_id, error |-> r.error,
             record |-> [recordID |-> record_id, recordType |-> record_type,
                         patientID |-> patient_id, hashPayload |-> hash_payload,
                         metadata |-> IF metadata = None THEN EmptyDict ELSE metadata,
                         txID |-> r.tx_id]]

\* FabricClient.get_record_hash
get_record_hash(l, record_id, sim, proc) ==
    IF sim THEN _simulate_get_record(l, record_id)
    ELSE LET q == _query_chaincode(proc)
         IN IF q.success /\ q.result # ""
            THEN IF JsonLoads(q.result).ok
                 THEN [success |-> TRUE, data |-> JsonLoads(q.result).value, error |-> ""]
                 ELSE [success |-> FALSE, data |-> None,
                       error |-> "Invalid JSON response from chaincode"]
            ELSE [success |-> q.success, data |-> None, error |-> q.error]

\* the list a query of the external backend returns: json.loads(result), or []
\* on a failure and on empty output
QueryList(proc) ==
    LET q == _query_chaincode(proc)
    IN IF q.success /\ q.result # ""
       THEN IF JsonLoads(q.result).ok
            THEN [success |-> TRUE, data |-> JsonLoads(q.result).value, error |-> ""]
            ELSE [success |-> FALSE, data |-> PyList(<<>>),
                  error |-> "Invalid JSON response from chaincode"]
       ELSE [success |-> q.success, data |-> PyList(<<>>), error |-> q.error]

\* FabricClient.get_record_history
get_record_history(l, record_id, sim, proc) ==
    IF sim
    THEN LET h == _simulate_get_history(l, record_id)
         IN [success |-> h.success, data |-> PyList(h.data), error |-> h.error]
    ELSE QueryList(proc)

\* FabricClient.get_records_by_patient
get_records_by_patient(l, patient_id, sim, order, proc) ==
    IF sim THEN _simulate_get_by_patient(l, patient_id, order) ELSE QueryList(proc)

\* FabricClient._simulate_verify_hash
_simulate_verify_hash(l, record_id, hash_to_verify) ==
    IF record_id \in DOMAIN l
    THEN LET payload == DictGet(l[record_id].current, "hashPayload", EmptyDict)
             first == DictGet(payload, "hash", "")
             stored_hash == IF first = "" THEN DictGet(payload, "formHash", "") ELSE first
         IN [success |-> TRUE, is_valid |-> stored_hash = hash_to_verify, error |-> ""]
    ELSE [success |-> FALSE, is_valid |-> FALSE, error |-> "Record not found"]

\* FabricClient.verify_hash
verify_hash(l, record_id, hash_to_verify, sim, proc) ==
    IF sim THEN _simulate_verify_hash(l, record_id, hash_to_verify)
    ELSE LET q == _query_chaincode(proc)
         IN IF q.success /\ q.result # ""
            THEN IF ~JsonLoads(q.result).ok
                 THEN [success |-> FALSE, is_valid |-> FALSE,
                       error |-> "Invalid JSON response from chaincode"]
                 ELSE IF IsDict(JsonLoads(q.result).value)
                 THEN [success |-> TRUE,
                       is_valid |-> DictGet(JsonLoads(q.result).value, "isValid", FALSE),
                       error |-> ""]
                 ELSE [raised |-> "AttributeError"]
            ELSE [success |-> q.success, is_valid |-> FALSE, error |-> q.error]

\* FabricClient._simulate_get_by_type; `order` lists the keys of the ledger in
\* the order the dict holds them
_simulate_get_by_type(l, record_type, order) ==
    LET OfType(record_id) == l[record_id].current.recordType = record_type
        keys == SelectSeq(order, OfType)
    IN [success |-> TRUE,
        data |-> PyList([i \in 1..Len(keys) |-> l[keys[i]].current]),
        error |-> ""]

\* FabricClient.get_records_by_type
get_records_by_type(l, record_type, sim, order, proc) ==
    IF sim THEN _simulate_get_by_type(l, record_type, order) ELSE QueryList(proc)

-----------------------------------------------------------------------------
(* encryption.py and ipfs_client.py, as far as store_report uses them *)

\* os.urandom(BLOCK_SIZE).hex()
RandomIVs == {"1111"}

\* A faulty variant: the file leaves the service as it came in
EncryptForStorageInTheClear(file_data, iv) == [encrypted |-> file_data, iv_hex |-> iv]

\* EncryptionService.encrypt_for_storage: AES-256-CBC under the master key,
\* idealised as a term over the IV and the plaintext
encrypt_for_storage(file_data, iv) ==
    [encrypted |-> "aes256cbc(" \o iv \o "," \o file_data \o ")", iv_hex |-> iv]

\* What requests.post comes back with
HttpResponse(status, body, text) ==
    [kind |-> "response", status_code |-> status, body |-> body, text |-> text]
HttpException(msg) == [kind |-> "exception", msg |-> msg]
NoHttp == [kind |-> "none"]

\* A response body that is not JSON: response.json() raises JSONDecodeError, which
\* is a requests.RequestException in some releases of requests (caught = TRUE) and
\* a plain ValueError in others.
NotJson(caught) == [t |-> "notjson", caught |-> caught]

\* config.py: IPFS_PROVIDER and the credentials of the providers, as
\* IPFSClient.__init__ reads them; these are the defaults
IpfsDefault ==
    [provider |-> "pinata", pinata_api_key |-> "2a8f", pinata_secret |-> "db9a",
     infura_project_id |-> "", infura_project_secret |-> ""]

\* A variant of PostUpload that reads the body of every response, whatever its status
PostUploadIgnoresStatus(label, hash_key, http) ==
    IF http.kind = "response" /\ IsDict(http.body)
    THEN [success |-> TRUE, ipfs_hash |-> DictGet(http.body, hash_key, ""), error |-> "",
          raised |-> "", requested |-> TRUE]
    ELSE [success |-> FALSE, ipfs_hash |-> "", error |-> label \o " upload error",
          raised |-> "", requested |-> TRUE]

\* The try block the three _upload_to_* methods share: requests.post, then the
\* locator under `hash_key` of a 200 response's JSON body. `raised` is the
\* exception that leaves the method, if any; `requested` tells that requests.post
\* was called
PostUpload(label, hash_key, http) ==
    CASE http.kind = "response" /\ http.status_code = 200 /\ IsDict(http.body) ->
            [success |-> TRUE, ipfs_hash |-> DictGet(http.body, hash_key, ""), error |-> "",
             raised |-> "", requested |-> TRUE]
      [] http.kind = "response" /\ http.status_code = 200 /\ ~IsDict(http.body) ->
            IF http.body.caught
            THEN [success |-> FALSE, ipfs_hash |-> "",
                  error |-> label \o " upload error: Expecting value", raised |-> "",
                  requested |-> TRUE]
            ELSE [success |-> FALSE, ipfs_hash |-> "", error |-> "", raised |-> "ValueError",
                  requested |-> TRUE]
      [] http.kind = "response" /\ http.status_code # 200 ->
            [success |-> FALSE, ipfs_hash |-> "",
             error |-> label \o " upload failed: " \o http.text, raised |-> "",
             requested |-> TRUE]
      [] http.kind = "exception" ->
            [success |-> FALSE, ipfs_hash |-> "",
             error |-> label \o " upload error: " \o http.msg,
             raised |-> "", requested |-> TRUE]

\* the return of an _upload_to_* method that finds its credentials missing
NotConfigured(error) ==
    [success |-> FALSE, ipfs_hash |-> "", error |-> error, raised |-> "",
     requested |-> FALSE]

\* IPFSClient._upload_to_pinata
_upload_to_pinata(cfg, file_data, filename, http) ==
    IF cfg.pinata_api_key = "" \/ cfg.pinata_secret = ""
    THEN NotConfigured("Pinata API credentials not configured")
    ELSE PostUpload("Pinata", "IpfsHash", http)

\* IPFSClient._upload_to_infura
_upload_to_infura(cfg, file_data, filename, http) ==
    IF cfg.infura_project_id = "" \/ cfg.infura_project_secret = ""
    THEN NotConfigured("Infura IPFS credentials not configured")
    ELSE PostUpload("Infura", "Hash", http)

\* IPFSClient._upload_to_local
_upload_to_local(cfg, file_data, filename, http) == PostUpload("Local IPFS", "Hash", http)

\* IPFSClient.upload_file
upload_file(cfg, file_data, filename, http) ==
    IF cfg.provider = "pinata" THEN _upload_to_pinata(cfg, file_data, filename, http)
    ELSE IF cfg.provider = "infura" THEN _upload_to_infura(cfg, file_data, filename, http)
    ELSE _upload_to_local(cfg, file_data, filename, http)

-----------------------------------------------------------------------------
(* encryption.py over byte strings: a byte string is a sequence of 0..255 *)

\* EncryptionService.BLOCK_SIZE
BLOCK_SIZE == 16

\* What a call returns, or the exception that leaves it
Returned(data) == [raised |-> "", msg |-> "", data |-> data]
Raised(exception, msg) == [raised |-> exception, msg |-> msg, data |-> <<>>]

\* The exclusive or of two bytes
RECURSIVE XorByte(_, _)
XorByte(a, b) ==
    IF a = 0 /\ b = 0 THEN 0
    ELSE ((a + b) % 2) + 2 * XorByte(a \div 2, b \div 2)

XorBlock(x, y) == [i \in 1..BLOCK_SIZE |-> XorByte(x[i], y[i])]

\* The block cipher under the master key: a permutation of the 16-byte blocks and
\* its inverse. AES-256 is stood in for by a rotation of the block with a
\* position-dependent offset; CBC and the padding are modelled as they are.
AesEncryptBlock(b) ==
    [i \in 1..BLOCK_SIZE |-> (b[(i % BLOCK_SIZE) + 1] + 7 * i + 3) % 256]
AesDecryptBlock(c) ==
    [j \in 1..BLOCK_SIZE |->
        LET i == ((j + BLOCK_SIZE - 2) % BLOCK_SIZE) + 1
        IN (c[i] + 256 - ((7 * i + 3) % 256)) % 256]

\* padding.PKCS7(128).padder(): 1 to 16 bytes, each the number of bytes added
Pkcs7Pad(data) ==
    LET n == BLOCK_SIZE - (Len(data) % BLOCK_SIZE)
    IN data \o [i \in 1..n |-> n]

\* padding.PKCS7(128).unpadder(): finalize() raises on an empty or partial last
\* block and on padding bytes that are not n copies of n, 1 <= n <= 16
Pkcs7Unpad(padded) ==
    IF Len(padded) = 0 \/ Len(padded) % BLOCK_SIZE # 0
    THEN Raised("ValueError", "Invalid padding bytes.")
    ELSE LET n == padded[Len(padded)]
         IN IF /\ n >= 1
               /\ n <= BLOCK_SIZE
               /\ \A i \in (Len(padded) - n + 1)..Len(padded) : padded[i] = n
            THEN Returned(SubSeq(padded, 1, Len(padded) - n))
            ELSE Raised("ValueError", "Invalid padding bytes.")

\* Cipher(AES(key), CBC(iv)).encryptor() over whole blocks
RECURSIVE CbcEncrypt(_, _)
CbcEncrypt(prev, padded) ==
    IF Len(padded) = 0 THEN <<>>
    ELSE LET c == AesEncryptBlock(XorBlock(SubSeq(padded, 1, BLOCK_SIZE), prev))
         IN c \o CbcEncrypt(c, SubSeq(padded, BLOCK_SIZE + 1, Len(padded)))

\* Cipher(AES(key), CBC(iv)).decryptor() over whole blocks
RECURSIVE CbcDecrypt(_, _)
CbcDecrypt(prev, encrypted) ==
    IF Len(encrypted) = 0 THEN <<>>
    ELSE LET c == SubSeq(encrypted, 1, BLOCK_SIZE)
         IN XorBlock(AesDecryptBlock(c), prev)
               \o CbcDecrypt(c, SubSeq(encrypted, BLOCK_SIZE + 1, Len(encrypted)))

\* EncryptionService.encrypt_file, `iv` being what os.urandom(BLOCK_SIZE) returns
encrypt_file(file_data, iv) ==
    [encrypted |-> CbcEncrypt(iv, Pkcs7Pad(file_data)), iv |-> iv]

\* A variant of decrypt_file that returns the padded data as decrypted
DecryptFileKeepsPadding(encrypted_data, iv) ==
    Returned(CbcDecrypt(iv, encrypted_data))

\* EncryptionService.decrypt_file: the Cipher refuses an IV that is not one block
\* long, the decryptor's finalize() a partial block, the unpadder bad padding
decrypt_file(encrypted_data, iv) ==
    IF Len(iv) # BLOCK_SIZE
    THEN Raised("ValueError", "Invalid IV size for CBC.")
    ELSE IF Len(encrypted_data) % BLOCK_SIZE # 0
    THEN Raised("ValueError", "The length of the provided data is not a multiple of the block length.")
    ELSE Pkcs7Unpad(CbcDecrypt(iv, encrypted_data))

\* base64.b64encode and base64.b64decode
B64Alphabet == "ABCDEFGHIJKLMNOPQRSTUVWXYZabcdefghijklmnopqrstuvwxyz0123456789+/"
B64Char(n) == SubSeq(B64Alphabet, n + 1, n + 1)
B64Value(c) == (CHOOSE i \in 1..64 : SubSeq(B64Alphabet, i, i) = c) - 1

RECURSIVE B64Encode(_)
B64Encode(by) ==
    IF Len(by) = 0 THEN ""
    ELSE IF Len(by) = 1
    THEN B64Char(by[1] \div 4) \o B64Char((by[1] % 4) * 16) \o "=="
    ELSE IF Len(by) = 2
    THEN B64Char(by[1] \div 4) \o B64Char((by[1] % 4) * 16 + by[2] \div 16)
            \o B64Char((by[2] % 16) * 4) \o "="
    ELSE B64Char(by[1] \div 4) \o B64Char((by[1] % 4) * 16 + by[2] \div 16)
            \o B64Char((by[2] % 16) * 4 + by[3] \div 64) \o B64Char(by[3] % 64)
            \o B64Encode(SubSeq(by, 4, Len(by)))

\* b64decode of text made of whole quads of the alphabet, '=' only at the end
RECURSIVE B64Decode(_)
B64Decode(s) ==
    IF Len(s) = 0 THEN <<>>
    ELSE LET q(i) == SubSeq(s, i, i)
             v(i) == B64Value(q(i))
             b1 == v(1) * 4 + v(2) \div 16
         IN IF q(3) = "=" THEN <<b1>>
            ELSE IF q(4) = "="
            THEN <<b1, (v(2) % 16) * 16 + v(3) \div 4>>
            ELSE <<b1, (v(2) % 16) * 16 + v(3) \div 4, (v(3) % 4) * 64 + v(4)>>
                    \o B64Decode(SubSeq(s, 5, Len(s)))

\* bytes.hex and bytes.fromhex
HexDigits == "0123456789abcdef"
HexChar(n) == SubSeq(HexDigits, n + 1, n + 1)
IsHexChar(c) == \E i \in 1..16 : SubSeq(HexDigits, i, i) = c
HexValue(c) == (CHOOSE i \in 1..16 : SubSeq(HexDigits, i, i) = c) - 1

RECURSIVE Hex(_)
Hex(by) ==
    IF Len(by) = 0 THEN ""
    ELSE HexChar(by[1] \div 16) \o HexChar(by[1] % 16) \o Hex(Tail(by))

RECURSIVE HexPairs(_)
HexPairs(s) ==
    IF Len(s) = 0 THEN <<>>
    ELSE <<HexValue(SubSeq(s, 1, 1)) * 16 + HexValue(SubSeq(s, 2, 2))>>
            \o HexPairs(SubSeq(s, 3, Len(s)))

FromHex(s) ==
    IF Len(s) % 2 # 0 \/ \E i \in 1..Len(s) : ~IsHexChar(SubSeq(s, i, i))
    THEN Raised("ValueError", "non-hexadecimal number found in fromhex() arg")
    ELSE Returned(HexPairs(s))

\* EncryptionService.encrypt_and_encode
encrypt_and_encode(file_data, iv) ==
    LET e == encrypt_file(file_data, iv)
    IN B64Encode(e.iv \o e.encrypted)

\* EncryptionService.decode_and_decrypt
decode_and_decrypt(encoded_data) ==
    LET combined == B64Decode(encoded_data)
        cut == IF Len(combined) < BLOCK_SIZE THEN Len(combined) ELSE BLOCK_SIZE
    IN decrypt_file(SubSeq(combined, cut + 1, Len(combined)), SubSeq(combined, 1, cut))

\* EncryptionService.encrypt_for_storage over byte strings
EncryptForStorageBytes(file_data, iv) ==
    LET e == encrypt_file(file_data, iv)
    IN [encrypted |-> e.encrypted, iv_hex |-> Hex(e.iv)]

\* EncryptionService.decrypt_from_storage
decrypt_from_storage(encrypted_data, iv_hex) ==
    LET iv == FromHex(iv_hex)
    IN IF iv.raised # "" THEN iv ELSE decrypt_file(encrypted_data, iv.data)

\* IPFSClient.download_file: the body of a 200 response, as bytes
download_file(ipfs_hash, http) ==
    CASE http.kind = "response" /\ http.status_code = 200 ->
            [success |-> TRUE, file_data |-> http.body, error |-> ""]
      [] http.kind = "response" /\ http.status_code # 200 ->
            [success |-> FALSE, file_data |-> <<>>,
             error |-> "IPFS download failed: " \o ToString(http.status_code)]
      [] http.kind = "exception" ->
            [success |-> FALSE, file_data |-> <<>>,
             error |-> "IPFS download error: " \o http.msg]

\* BlockchainService.download_report_file
download_report_file(ipfs_hash, encryption_iv, http) ==
    LET down == download_file(ipfs_hash, http)
        dec == decrypt_from_storage(down.file_data, encryption_iv)
    IN IF ~down.success
       THEN [success |-> FALSE, data |-> <<>>, error |-> down.error]
       ELSE IF dec.raised # ""
       THEN [success |-> FALSE, data |-> <<>>, error |-> "Decryption failed: " \o dec.msg]
       ELSE [success |-> TRUE, data |-> dec.data, error |-> ""]

\* IPFSClient.is_configured
IpfsIsConfigured(cfg) ==
    IF cfg.provider = "pinata" THEN cfg.pinata_api_key # "" /\ cfg.pinata_secret # ""
    ELSE IF cfg.provider = "infura"
    THEN cfg.infura_project_id # "" /\ cfg.infura_project_secret # ""
    ELSE TRUE

\* IPFSClient.get_file_url
IpfsGateway == "https://gateway.pinata.cloud/ipfs/"
get_file_url(ipfs_hash) == IpfsGateway \o ipfs_hash

-----------------------------------------------------------------------------
(* blockchain_service.py: _persist_to_db *)

\* metadata.get('createdBy') if metadata else None
CreatedBy(metadata) ==
    IF metadata = None \/ DOMAIN metadata = {} THEN None
    ELSE DictGet(metadata, "createdBy", None)

\* A faulty variant: a row that exists is kept as it is (ON CONFLICT DO NOTHING)
PersistKeepsFirstRow(d, db_ok, record_type, record_id, blockchain_record_id, tx_id, record_hash, ipfs_hash, encryption_iv, file_hash, created_by) ==
    LET key == <<record_type, record_id>>
    IN IF ~db_ok \/ key \in DOMAIN d THEN d
       ELSE DictSet(d, key,
                [blockchain_record_id |-> blockchain_record_id,
                 transaction_id |-> tx_id, record_hash |-> record_hash,
                 file_hash |-> file_hash, ipfs_hash |-> ipfs_hash,
                 encryption_iv |-> encryption_iv, created_by |-> created_by])

\* The table after _persist_to_db; db_ok = FALSE is the swallowed exception
_persist_to_db(d, db_ok, record_type, record_id, blockchain_record_id, tx_id, record_hash, ipfs_hash, encryption_iv, file_hash, created_by) ==
    LET key == <<record_type, record_id>>
    IN IF ~db_ok THEN d
       ELSE IF key \notin DOMAIN d
       THEN DictSet(d, key,
                [blockchain_record_id |-> blockchain_record_id,
                 transaction_id |-> tx_id, record_hash |-> record_hash,
                 file_hash |-> file_hash, ipfs_hash |-> ipfs_hash,
                 encryption_iv |-> encryption_iv, created_by |-> created_by])
       ELSE DictSet(d, key,
                [d[key] EXCEPT !.transaction_id = tx_id, !.record_hash = record_hash,
                               !.file_hash = file_hash, !.ipfs_hash = ipfs_hash,
                               !.encryption_iv = encryption_iv])

-----------------------------------------------------------------------------
(* integrity_service.py *)

\* A faulty variant: whatever the ledger holds, the record is reported VALID
VerifyRecordTrusting(get, record_id, current_hash, record_type, t) ==
    [verified |-> TRUE, status |-> "VALID",
     recordId |-> record_id, recordType |-> record_type,
     currentHash |-> current_hash, storedHash |-> current_hash,
     blockchainTimestamp |-> None, transactionId |-> None,
     timestamp |-> IsoFormat(t)]

\* A faulty variant: no test for a null record before its fields are read
VerifyRecordWithoutNullCheck(get, record_id, current_hash, record_type, t) ==
    IF ~get.success
    THEN [verified |-> FALSE, status |-> "ERROR",
          error |-> IF get.error # "" THEN get.error
                    ELSE "Failed to retrieve blockchain record",
          recordId |-> record_id, recordType |-> record_type, timestamp |-> IsoFormat(t)]
    ELSE IF ~IsDict(get.data)
    THEN [raised |-> "AttributeError"]
    ELSE LET stored_hash == DictGet(DictGet(get.data, "hashPayload", EmptyDict), "hash", "")
         IN [verified |-> current_hash = stored_hash,
             status |-> IF current_hash = stored_hash THEN "VALID" ELSE "TAMPERED",
             recordId |-> record_id, recordType |-> record_type,
             currentHash |-> current_hash, storedHash |-> stored_hash,
             blockchainTimestamp |-> OptGet(get.data, "timestamp"),
             transactionId |-> OptGet(get.data, "txID"),
             timestamp |-> IsoFormat(t)]

\* IntegrityService._verify_record, given what get_record_hash returned
_verify_record(get, record_id, current_hash, record_type, t) ==
    IF ~get.success
    THEN [verified |-> FALSE, status |-> "ERROR",
          error |-> IF get.error # "" THEN get.error
                    ELSE "Failed to retrieve blockchain record",
          recordId |-> record_id, recordType |-> record_type, timestamp |-> IsoFormat(t)]
    ELSE IF get.data = None
    THEN [verified |-> FALSE, status |-> "NOT_FOUND",
          error |-> "Record not found on blockchain",
          recordId |-> record_id, recordType |-> record_type, timestamp |-> IsoFormat(t)]
    ELSE IF ~IsDict(get.data)
    THEN [raised |-> "AttributeError"]
    ELSE LET stored_payload == DictGet(get.data, "hashPayload", EmptyDict)
             stored_hash == DictGet(stored_payload, "hash", "")
             verified == current_hash = stored_hash
         IN [verified |-> verified,
             status |-> IF verified THEN "VALID" ELSE "TAMPERED",
             recordId |-> record_id, recordType |-> record_type,
             currentHash |-> current_hash, storedHash |-> stored_hash,
             blockchainTimestamp |-> OptGet(get.data, "timestamp"),
             transactionId |-> OptGet(get.data, "txID"),
             timestamp |-> IsoFormat(t)]

\* A faulty variant: a result that is NOT_FOUND is counted with the errors
BatchCountNotFoundAsError(result, branch) ==
    LET taken == IF result.status \in {"VALID", "TAMPERED"}
                 THEN result.status ELSE "OTHER"
    IN IF taken = branch THEN 1 ELSE 0

\* verify_patient_batch: the if/elif chain that picks the counter of a result;
\* 1 when `branch` is the one taken, "OTHER" being the final else
BatchCount(result, branch) ==
    LET taken == IF result.status \in {"VALID", "TAMPERED", "NOT_FOUND"}
                 THEN result.status ELSE "OTHER"
    IN IF taken = branch THEN 1 ELSE 0

\* IntegrityService.verify_patient_batch: the loop over `patients`, from element
\* i on; gets[i] is what get_record_hash returns to the i-th verify_patient.
\* acc holds results and the four counters.
RECURSIVE BatchLoop(_, _, _, _, _)
BatchLoop(gets, patients, t, i, acc) ==
    IF i > Len(patients) THEN acc
    ELSE LET result == _verify_record(gets[i], "patient_" \o ToString(patients[i].id),
                                      build_patient_hash(patients[i].data), "PATIENT", t)
         IN IF "raised" \in DOMAIN result THEN result
            ELSE BatchLoop(gets, patients, t, i + 1,
                    [results |-> Append(acc.results, result),
                     valid_count |-> acc.valid_count + BatchCount(result, "VALID"),
                     tampered_count |-> acc.tampered_count + BatchCount(result, "TAMPERED"),
                     not_found_count |-> acc.not_found_count + BatchCount(result, "NOT_FOUND"),
                     error_count |-> acc.error_count + BatchCount(result, "OTHER")])

\* IntegrityService.verify_patient_batch
verify_patient_batch(gets, patients, t) ==
    LET acc == BatchLoop(gets, patients, t, 1,
                         [results |-> <<>>, valid_count |-> 0, tampered_count |-> 0,
                          not_found_count |-> 0, error_count |-> 0])
    IN IF "raised" \in DOMAIN acc THEN acc
       ELSE [totalRecords |-> Len(patients),
             validRecords |-> acc.valid_count,
             tamperedRecords |-> acc.tampered_count,
             notFoundRecords |-> acc.not_found_count,
             errorRecords |-> acc.error_count,
             results |-> acc.results,
             timestamp |-> IsoFormat(t)]

\* A faulty variant: a file that was not supplied counts as a file that failed
VerifyReportMissingFileFails(get, report_id, report_data, file_data, t) ==
    LET record_id == "report_" \o ToString(report_id)
    IN IF ~get.success
       THEN [verified |-> FALSE, status |-> "ERROR",
             error |-> IF get.error # "" THEN get.error
                       ELSE "Failed to retrieve blockchain record",
             recordId |-> record_id, timestamp |-> IsoFormat(t)]
       ELSE IF get.data = None
       THEN [verified |-> FALSE, status |-> "NOT_FOUND",
             error |-> "Record not found on blockchain",
             recordId |-> record_id, timestamp |-> IsoFormat(t)]
       ELSE IF ~IsDict(get.data)
       THEN [raised |-> "AttributeError"]
       ELSE LET current_form_hash == build_report_form_hash(report_data)
                stored_payload == DictGet(get.data, "hashPayload", EmptyDict)
                stored_form_hash == DictGet(stored_payload, "formHash", "")
                form_verified == current_form_hash = stored_form_hash
                file_verified ==
                    IF file_data # None
                    THEN generate_file_hash(file_data.by)
                            = DictGet(stored_payload, "fileHash", "")
                    ELSE FALSE
            IN [verified |-> form_verified /\ file_verified,
                status |-> IF form_verified /\ file_verified THEN "VALID" ELSE "TAMPERED",
                recordId |-> record_id, recordType |-> "REPORT",
                formVerified |-> form_verified, fileVerified |-> PyBool(file_verified),
                currentFormHash |-> current_form_hash, storedFormHash |-> stored_form_hash,
                blockchainTimestamp |-> OptGet(get.data, "timestamp"),
                transactionId |-> OptGet(get.data, "txID"),
                timestamp |-> IsoFormat(t)]

\* IntegrityService.verify_report, given what get_record_hash returned;
\* file_data is Optional[bytes]
verify_report(get, report_id, report_data, file_data, t) ==
    LET record_id == "report_" \o ToString(report_id)
    IN IF ~get.success
       THEN [verified |-> FALSE, status |-> "ERROR",
             error |-> IF get.error # "" THEN get.error
                       ELSE "Failed to retrieve blockchain record",
             recordId |-> record_id, timestamp |-> IsoFormat(t)]
       ELSE IF get.data = None
       THEN [verified |-> FALSE, status |-> "NOT_FOUND",
             error |-> "Record not found on blockchain",
             recordId |-> record_id, timestamp |-> IsoFormat(t)]
       ELSE IF ~IsDict(get.data)
       THEN [raised |-> "AttributeError"]
       ELSE LET current_form_hash == build_report_form_hash(report_data)
                stored_payload == DictGet(get.data, "hashPayload", EmptyDict)
                stored_form_hash == DictGet(stored_payload, "formHash", "")
                form_verified == current_form_hash = stored_form_hash
                file_verified ==
                    IF file_data # None
                    THEN PyBool(generate_file_hash(file_data.by)
                                = DictGet(stored_payload, "fileHash", ""))
                    ELSE None
                verified ==
                    IF file_verified # None THEN form_verified /\ file_verified.b
                    ELSE form_verified
            IN [verified |-> verified,
                status |-> IF verified THEN "VALID" ELSE "TAMPERED",
                recordId |-> record_id, recordType |-> "REPORT",
                formVerified |-> form_verified, fileVerified |-> file_verified,
                currentFormHash |-> current_form_hash, storedFormHash |-> stored_form_hash,
                blockchainTimestamp |-> OptGet(get.data, "timestamp"),
                transactionId |-> OptGet(get.data, "txID"),
                timestamp |-> IsoFormat(t)]

-----------------------------------------------------------------------------
(* blockchain_service.py *)

\* IntegrityService.get_record_audit_trail; `get` is what get_record_history
\* returned. len() of None raises.
get_record_audit_trail(get, record_id, t) ==
    IF ~get.success
    THEN [success |-> FALSE,
          error |-> IF get.error # "" THEN get.error ELSE "Failed to retrieve audit trail",
          recordId |-> record_id]
    ELSE IF get.data = None THEN [raised |-> "TypeError"]
    ELSE [success |-> TRUE, recordId |-> record_id,
          changesCount |-> IF IsDict(get.data) THEN Cardinality(DOMAIN get.data)
                           ELSE Len(get.data.xs),
          history |-> get.data,
          timestamp |-> IsoFormat(t)]

\* IntegrityService.get_patient_audit_summary; `get` is what
\* get_records_by_patient returned. Iterating None raises, iterating a dict
\* yields its keys, which have no .get
get_patient_audit_summary(get, patient_id, t) ==
    IF ~get.success
    THEN [success |-> FALSE,
          error |-> IF get.error # "" THEN get.error
                    ELSE "Failed to retrieve patient records",
          patientId |-> patient_id]
    ELSE IF get.data = None THEN [raised |-> "TypeError"]
    ELSE IF IsDict(get.data) /\ DOMAIN get.data # {} THEN [raised |-> "AttributeError"]
    ELSE LET records == IF IsDict(get.data) THEN <<>> ELSE get.data.xs
             TypeOf(record) == DictGet(record, "recordType", "UNKNOWN")
             types == {TypeOf(records[i]) : i \in 1..Len(records)}
         IN [success |-> TRUE, patientId |-> patient_id,
             totalRecords |-> Len(records),
             recordsByType |->
                 [ty \in types |->
                     Cardinality({i \in 1..Len(records) : TypeOf(records[i]) = ty})],
             records |-> get.data,
             timestamp |-> IsoFormat(t)]

\* A faulty variant: the cross-reference row is written whatever the ledger
\* answered
StoreSimplePersistAlways(l, d, sim, record_type, record_id, db_id, patient_id, record_hash, metadata, t, rnd, proc, db_ok) ==
    LET hash_payload == build_simple_hash_payload(record_hash)
        r == add_record_hash(l, record_id, record_type, patient_id, hash_payload,
                             metadata, sim, t, rnd, proc)
    IN [ledger |-> r.ledger,
        db |-> _persist_to_db(d, db_ok, record_type, db_id, record_id, r.tx_id,
                              record_hash, None, None, None, CreatedBy(metadata)),
        add |-> r,
        ret |-> [success |-> r.success, recordId |-> record_id, recordType |-> record_type,
                 hash |-> record_hash,
                 transactionId |-> IF r.success THEN PyStr(r.tx_id) ELSE None,
                 error |-> IF ~r.success THEN PyStr(r.error) ELSE None,
                 timestamp |-> IsoFormat(t)]]

\* The body the five simple store_* methods share: append the digest under
\* record_id, write the cross-reference row on success, build the result
StoreSimple(l, d, sim, record_type, record_id, db_id, patient_id, record_hash, metadata, t, rnd, proc, db_ok) ==
    LET hash_payload == build_simple_hash_payload(record_hash)
        r == add_record_hash(l, record_id, record_type, patient_id, hash_payload,
                             metadata, sim, t, rnd, proc)
    IN [ledger |-> r.ledger,
        db |-> IF r.success
               THEN _persist_to_db(d, db_ok, record_type, db_id, record_id, r.tx_id,
                                   record_hash, None, None, None, CreatedBy(metadata))
               ELSE d,
        add |-> r,
        ret |-> [success |-> r.success, recordId |-> record_id, recordType |-> record_type,
                 hash |-> record_hash,
                 transactionId |-> IF r.success THEN PyStr(r.tx_id) ELSE None,
                 error |-> IF ~r.success THEN PyStr(r.error) ELSE None,
                 timestamp |-> IsoFormat(t)]]

NoAdd == [success |-> FALSE, called |-> FALSE]
NoUpload == [called |-> FALSE]

\* store_report: `if file_data and filename:`
FileProvided(file_data, filename) == Truthy(file_data) /\ Truthy(filename)

\* A faulty variant: the outcome of the upload is not looked at
UploadFailureIgnored(up) == FALSE

\* store_report: `if not success:` after upload_file has returned `up`
UploadFailed(up) == ~up.success

\* BlockchainService.store_report; file_data is Optional[bytes], filename is
\* Optional[str], metadata is Optional[dict]
store_report(l, d, sim, report_id, patient_id, report_data, file_data, filename, upload_to_ipfs, metadata, t, rnd, proc, iv, http, db_ok) ==
    LET record_id == "report_" \o ToString(report_id)
        form_hash == build_report_form_hash(report_data)
        has_file == FileProvided(file_data, filename)
        file_hash == IF has_file THEN PyStr(generate_file_hash(file_data.by)) ELSE None
        uploads == has_file /\ upload_to_ipfs
        enc == IF uploads THEN encrypt_for_storage(file_data.by, iv)
               ELSE [encrypted |-> "", iv_hex |-> ""]
        up == IF uploads
              THEN upload_file(IpfsDefault, enc.encrypted, filename.s \o ".enc", http)
              ELSE [success |-> TRUE, ipfs_hash |-> "", error |-> "", raised |-> ""]
        upload == IF uploads
                  THEN [called |-> TRUE, file_data |-> enc.encrypted,
                        filename |-> filename.s \o ".enc", ret |-> up]
                  ELSE NoUpload
        ipfs_hash == IF uploads THEN PyStr(up.ipfs_hash) ELSE None
        encryption_iv == IF uploads THEN PyStr(enc.iv_hex) ELSE None
    IN IF uploads /\ up.raised # ""
       THEN [ledger |-> l, db |-> d, add |-> NoAdd, upload |-> upload,
             ret |-> [raised |-> up.raised]]
       ELSE IF uploads /\ UploadFailed(up)
       THEN [ledger |-> l, db |-> d, add |-> NoAdd, upload |-> upload,
             ret |-> [success |-> FALSE, recordId |-> record_id,
                      error |-> PyStr("IPFS upload failed: " \o up.error),
                      timestamp |-> IsoFormat(t)]]
       ELSE
        LET hash_payload == build_report_hash_payload(form_hash, file_hash, ipfs_hash)
            r == add_record_hash(l, record_id, "REPORT", ToString(patient_id), hash_payload,
                                 metadata, sim, t, rnd, proc)
            r1 == [success |-> r.success, recordId |-> record_id, recordType |-> "REPORT",
                   formHash |-> form_hash,
                   transactionId |-> IF r.success THEN PyStr(r.tx_id) ELSE None,
                   error |-> IF ~r.success THEN PyStr(r.error) ELSE None,
                   timestamp |-> IsoFormat(t),
                   hash |-> form_hash]
            r2 == IF Truthy(file_hash) THEN DictSet(r1, "fileHash", file_hash.s) ELSE r1
            r3 == IF Truthy(ipfs_hash)
                  THEN DictSet(DictSet(r2, "ipfsHash", ipfs_hash.s),
                               "ipfsUrl", get_file_url(ipfs_hash.s))
                  ELSE r2
            r4 == IF Truthy(encryption_iv) THEN DictSet(r3, "encryptionIv", encryption_iv.s)
                  ELSE r3
        IN [ledger |-> r.ledger,
            db |-> IF r.success
                   THEN _persist_to_db(d, db_ok, "REPORT", report_id, record_id, r.tx_id,
                                       form_hash, ipfs_hash, encryption_iv, file_hash,
                                       CreatedBy(metadata))
                   ELSE d,
            add |-> r, upload |-> upload, ret |-> r4]

-----------------------------------------------------------------------------
(* The inputs of the calls and the outcomes of the external collaborators *)

\* The service's store calls the simulated ledger acknowledges in one run
MaxStores == 2

\* The service's store calls the external ledger acknowledges in one run; what
\* that ledger then holds is the peer process's, not this program's
MaxExternalStores == 1

\* The direct appends to the ledger client in one run
MaxAppends == 3
MaxExternalAppends == 1

Ann == [mrn |-> PyStr("M1"), first_name |-> PyStr("Ann")]
Bob == [mrn |-> PyStr("M1"), first_name |-> PyStr("Bob")]
ByUser == [createdBy |-> PyInt(7)]

PatientStores ==
    {[id |-> 1, data |-> Ann, metadata |-> None],
     [id |-> 1, data |-> Bob, metadata |-> ByUser]}

PatientVerifies == [id : {1, 2}, data : {Ann, Bob}]

Opd == [patient_id |-> PyInt(1), visit_type |-> PyStr("OPD"), bed_number |-> None]
Ipd == [patient_id |-> PyInt(1), visit_type |-> PyStr("IPD"), bed_number |-> PyInt(4)]

VisitStores == {[id |-> 1, patient_id |-> 1, data |-> Opd, metadata |-> ByUser]}

VisitVerifies == [id : {1}, data : {Opd, Ipd}]

Rx == [patient_id |-> PyInt(1), notes |-> PyStr("after meals")]
Zinc == [medicine_name |-> PyStr("Zinc"), quantity |-> PyInt(10)]
Aspirin == [medicine_name |-> PyStr("Aspirin"), dosage |-> PyStr("75mg")]

PrescriptionStores ==
    {[id |-> 1, patient_id |-> 2, data |-> Rx, medications |-> <<Zinc, Aspirin>>,
      metadata |-> None]}

PrescriptionVerifies ==
    [id : {1}, data : {Rx}, medications : {<<Aspirin, Zinc>>, <<Zinc>>}]

Inv == [patient_id |-> PyInt(1), invoice_number |-> PyStr("INV1")]
LabItem == [category |-> PyStr("Lab"), description |-> PyStr("CBC"), quantity |-> PyInt(1)]
BedItem == [category |-> PyStr("Bed"), description |-> PyStr("Ward"), quantity |-> PyInt(2)]

InvoiceStores ==
    {[id |-> 1, patient_id |-> 1, data |-> Inv, items |-> <<LabItem, BedItem>>,
      metadata |-> ByUser]}

InvoiceVerifies == [id : {1}, data : {Inv}, items : {<<BedItem, LabItem>>, <<LabItem>>}]

Checkup == [patient_id |-> PyInt(1), reason |-> PyStr("checkup")]
Followup == [patient_id |-> PyInt(1), reason |-> PyStr("follow up")]

AppointmentStores == {[id |-> 1, patient_id |-> 1, data |-> Checkup, metadata |-> None]}

AppointmentVerifies == [id : {1}, data : {Checkup, Followup}]

Cbc == [title |-> PyStr("CBC")]
Mri == [title |-> PyStr("MRI")]

ReportStores ==
    {[id |-> 1, patient_id |-> 1, data |-> Cbc, file_data |-> None, filename |-> None,
      upload_to_ipfs |-> TRUE, metadata |-> None],
     [id |-> 1, patient_id |-> 1, data |-> Cbc, file_data |-> PyBytes("AB"),
      filename |-> PyStr("scan.pdf"), upload_to_ipfs |-> TRUE, metadata |-> ByUser],
     [id |-> 1, patient_id |-> 1, data |-> Mri, file_data |-> PyBytes("AC"),
      filename |-> PyStr("scan.pdf"), upload_to_ipfs |-> FALSE, metadata |-> None],
     [id |-> 1, patient_id |-> 1, data |-> Cbc, file_data |-> PyBytes(""),
      filename |-> PyStr("empty.pdf"), upload_to_ipfs |-> TRUE, metadata |-> None]}

ReportVerifies ==
    [id : {1}, data : {Cbc, Mri}, file_data : {None, PyBytes(""), PyBytes("AB")}]

\* The direct calls of the ledger client
LedgerKeys == {"patient_1", "visit_1"}
LedgerPayloads == {[hash |-> "aa11"], [hash |-> "bb22"]}

InvokeOutcomes ==
    {ProcExit(0, "OK TxID: [ab12]", ""),
     ProcExit(0, "status:200", ""),
     ProcExit(1, "", "endorsement failure"),
     ProcTimeout,
     ProcError("No such file or directory: peer")}

\* What the peer process can do to a direct add_record_hash: the above, and
\* standard output whose marker is followed by empty brackets, by nothing, or is
\* written in one token with the id
LedgerInvokeOutcomes ==
    InvokeOutcomes \cup
        {ProcExit(0, "committed txid: []", ""),
         ProcExit(0, "committed txid", ""),
         ProcExit(0, "txid=ab12 committed", ""),
         ProcExit(2, "", "")}

QueryOutcomes ==
    {ProcExit(0, "", ""),
     ProcExit(0, "null\n", ""),
     ProcExit(0, "[]", ""),
     ProcExit(0, "{}", ""),
     ProcExit(0, "{patient}\n", ""),
     ProcExit(0, "{report}", ""),
     ProcExit(0, "Error: not json", ""),
     ProcExit(1, "", "record does not exist"),
     ProcTimeout,
     ProcError("No such file or directory: peer")}

HttpOutcomes ==
    {HttpResponse(200, [IpfsHash |-> "QmA"], "ok"),
     HttpResponse(200, EmptyDict, "{}"),
     HttpResponse(200, NotJson(TRUE), "<html>"),
     HttpResponse(200, NotJson(FALSE), "<html>"),
     HttpResponse(401, EmptyDict, "unauthorized"),
     HttpException("timed out")}

\* The configurations IPFSClient.__init__ can read: each provider, with each of
\* its own two credentials set or empty
IpfsConfigs ==
    {[IpfsDefault EXCEPT !.pinata_api_key = k, !.pinata_secret = sec] :
        k \in {"", "2a8f"}, sec \in {"", "db9a"}}
    \cup {[IpfsDefault EXCEPT !.provider = "infura", !.infura_project_id = id,
                              !.infura_project_secret = sec] :
             id \in {"", "2Kx"}, sec \in {"", "9fe"}}
    \cup {[IpfsDefault EXCEPT !.provider = "local"],
          [IpfsDefault EXCEPT !.provider = "local", !.pinata_api_key = "",
                              !.pinata_secret = ""]}

\* What requests.post can do to a direct upload
UploadOutcomes ==
    HttpOutcomes \cup {HttpResponse(200, [Hash |-> "QmB"], "ok"),
                       HttpResponse(500, EmptyDict, "")}

\* The files given to the encryption service: every length around the block size
PlainLengths == {0, 1, 15, 16, 17}
Plaintexts == {[i \in 1..n |-> b] : n \in PlainLengths, b \in {1, 16, 65}}

\* What os.urandom(BLOCK_SIZE) returns
IVs ==
    {[i \in 1..BLOCK_SIZE |-> 0],
     [i \in 1..BLOCK_SIZE |-> IF i = 1 THEN 1 ELSE 0],
     [i \in 1..BLOCK_SIZE |-> (17 * i) % 256]}

\* The ciphertexts a caller can come back with for a stored one: the stored one,
\* the stored one cut short, none at all, and two whose last block does not
\* decrypt to PKCS7 padding
GivenCiphertexts(stored, iv) ==
    {stored,
     SubSeq(stored, 1, Len(stored) - 1),
     <<>>,
     CbcEncrypt(iv, [i \in 1..BLOCK_SIZE |-> 0]),
     CbcEncrypt(iv, [i \in 1..BLOCK_SIZE |-> IF i = BLOCK_SIZE THEN 2 ELSE 65])}

\* The IVs a caller can come back with: each IV that encrypt can draw, one a
\* byte short, and text that is not hexadecimal
GivenIVs == {Hex(iv) : iv \in IVs} \cup {Hex([i \in 1..(BLOCK_SIZE - 1) |-> 0]), "zz"}

-----------------------------------------------------------------------------
(* The state machine *)

RECURSIVE SumLen(_, _)
SumLen(f, keys) ==
    IF keys = {} THEN 0
    ELSE LET k == CHOOSE x \in keys : TRUE IN Len(f[k]) + SumLen(f, keys \ {k})

\* the number of appends the ledger has acknowledged
TotalAppended == SumLen(appended, DOMAIN appended)

\* The threads that call _simulate_add_record, each once, and the random bytes
\* each draws for its transaction id
MaxCallers == 3
Callers == 1..MaxCallers
CallerRandom(c) == "0a0a0a0" \o ToString(c)
Idle == [pc |-> "idle"]

\* thread c returns (True, tx_id, ''): its append is acknowledged
Returns(c) ==
    LET record == running[c].record
        args == [record_id |-> record.recordID, hash_payload |-> record.hashPayload]
    IN /\ running' = [running EXCEPT ![c] = [pc |-> "done", record |-> record]]
       /\ appended' = DictSet(appended, record.recordID,
                              Append(DictGet(appended, record.recordID, <<>>),
                                     [record |-> record, args |-> args]))
       /\ last' = [op |-> "add_record_hash", args |-> args,
                   add |-> [called |-> TRUE, success |-> TRUE, tx_id |-> record.txID,
                            error |-> "", record_id |-> record.recordID,
                            hash_payload |-> record.hashPayload],
                   configured |-> TRUE, proc |-> NoProc]

\* what the last call saw of the ledger's append
AddSeen(r) ==
    [called |-> TRUE, success |-> r.success, tx_id |-> r.tx_id, error |-> r.error,
     record_id |-> r.record.recordID, hash_payload |-> r.record.hashPayload]

\* the history variable after an append that returned r, made by a call with args
Acknowledge(r, args) ==
    IF r.success
    THEN DictSet(appended, r.record.recordID,
                 Append(DictGet(appended, r.record.recordID, <<>>),
                        [record |-> r.record, args |-> args]))
    ELSE appended

StoreBound == IF simulation_mode THEN MaxStores ELSE MaxExternalStores
AppendBound == IF simulation_mode THEN MaxAppends ELSE MaxExternalAppends

\* the outcomes of the peer process, which only the external backend starts
Procs(outcomes) == IF simulation_mode THEN {NoProc} ELSE outcomes

\* the random bytes add_record_hash draws: urandom(4) in _simulate_add_record,
\* urandom(8) in _extract_tx_id
Randoms == IF simulation_mode THEN RandomHex4 ELSE RandomHex8

\* One call of a simple store_* method, the peer process ending in one of procs
StoreAttempt(op, record_type, prefix, patient_id, args, record_hash, procs) ==
    /\ \E rnd \in Randoms, proc \in procs, db_ok \in BOOLEAN :
          \E r \in {StoreSimple(ledger, db, simulation_mode, record_type,
                               prefix \o ToString(args.id), args.id, patient_id,
                               record_hash, args.metadata, now, rnd, proc, db_ok)} :
             /\ ledger' = r.ledger
             /\ db' = r.db
             /\ appended' = Acknowledge(r.add, args)
             /\ last' = [op |-> op, args |-> args, add |-> AddSeen(r.add),
                         persisted |-> r.add.success /\ db_ok, proc |-> proc,
                         ret |-> r.ret]
    /\ UNCHANGED <<running, simulation_mode, now>>

\* One call of a simple store_* method, while the ledger acknowledges stores
StoreCall(op, record_type, prefix, patient_id, args, record_hash) ==
    /\ TotalAppended < StoreBound
    /\ StoreAttempt(op, record_type, prefix, patient_id, args, record_hash,
                    Procs(InvokeOutcomes))

StorePatient ==
    \E c \in PatientStores :
        StoreCall("store_patient", "PATIENT", "patient_", ToString(c.id), c,
                  build_patient_hash(c.data))

StoreVisit ==
    \E c \in VisitStores :
        StoreCall("store_visit", "VISIT", "visit_", ToString(c.patient_id), c,
                  build_visit_hash(c.data))

StorePrescription ==
    \E c \in PrescriptionStores :
        StoreCall("store_prescription", "PRESCRIPTION", "prescription_",
                  ToString(c.patient_id), c, build_prescription_hash(c.data, c.medications))

StoreInvoice ==
    \E c \in InvoiceStores :
        StoreCall("store_invoice", "INVOICE", "invoice_", ToString(c.patient_id), c,
                  build_invoice_hash(c.data, c.items))

StoreAppointment ==
    \E c \in AppointmentStores :
        StoreCall("store_appointment", "APPOINTMENT", "appointment_",
                  ToString(c.patient_id), c, build_appointment_hash(c.data))

\* the outcomes of the upload, which store_report attempts only for a file it
\* takes (file bytes and file name both truthy) with upload_to_ipfs set
Uploads(c, ivs, https) ==
    IF FileProvided(c.file_data, c.filename) /\ c.upload_to_ipfs
    THEN ivs \X https
    ELSE {<<"", NoHttp>>}

StoreReport ==
    /\ TotalAppended < StoreBound
    /\ \E c \in ReportStores, rnd \in Randoms, proc \in Procs(InvokeOutcomes),
          db_ok \in BOOLEAN :
          \E u \in Uploads(c, RandomIVs, HttpOutcomes) :
             \E r \in {store_report(ledger, db, simulation_mode, c.id, c.patient_id, c.data,
                                    c.file_data, c.filename, c.upload_to_ipfs, c.metadata,
                                    now, rnd, proc, u[1], u[2], db_ok)} :
                /\ ledger' = r.ledger
                /\ db' = r.db
                /\ appended' = IF r.add.success THEN Acknowledge(r.add, c) ELSE appended
                /\ last' = [op |-> "store_report", args |-> c,
                            add |-> IF r.add = NoAdd THEN NoAdd ELSE AddSeen(r.add),
                            upload |-> r.upload, persisted |-> r.add.success /\ db_ok,
                            proc |-> proc, http |-> u[2], ret |-> r.ret]
    /\ UNCHANGED <<running, simulation_mode, now>>

\* One call of a simple verify_* method: IntegrityService.verify_<type>
VerifyCall(op, record_type, prefix, args, current_hash) ==
    /\ \E proc \in Procs(QueryOutcomes) :
          \E get \in {get_record_hash(ledger, prefix \o ToString(args.id),
                                       simulation_mode, proc)} :
             last' = [op |-> op, args |-> args, get |-> get, proc |-> proc,
                      ret |-> _verify_record(get, prefix \o ToString(args.id),
                                             current_hash, record_type, now)]
    /\ UNCHANGED <<running, simulation_mode, ledger, db, now, appended>>

VerifyPatient ==
    \E c \in PatientVerifies :
        VerifyCall("verify_patient", "PATIENT", "patient_", c, build_patient_hash(c.data))

VerifyVisit ==
    \E c \in VisitVerifies :
        VerifyCall("verify_visit", "VISIT", "visit_", c, build_visit_hash(c.data))

VerifyPrescription ==
    \E c \in PrescriptionVerifies :
        VerifyCall("verify_prescription", "PRESCRIPTION", "prescription_", c,
                   build_prescription_hash(c.data, c.medications))

VerifyInvoice ==
    \E c \in InvoiceVerifies :
        VerifyCall("verify_invoice", "INVOICE", "invoice_", c,
                   build_invoice_hash(c.data, c.items))

VerifyAppointment ==
    \E c \in AppointmentVerifies :
        VerifyCall("verify_appointment", "APPOINTMENT", "appointment_", c,
                   build_appointment_hash(c.data))

VerifyReport ==
    /\ \E c \in ReportVerifies, proc \in Procs(QueryOutcomes) :
          \E get \in {get_record_hash(ledger, "report_" \o ToString(c.id),
                                       simulation_mode, proc)} :
             last' = [op |-> "verify_report", args |-> c, get |-> get, proc |-> proc,
                      ret |-> verify_report(get, c.id, c.data, c.file_data, now)]
    /\ UNCHANGED <<running, simulation_mode, ledger, db, now, appended>>

\* the outcomes of the peer process that add_record_hash reports as failures
RefusedInvokes == {proc \in InvokeOutcomes : ~_invoke_chaincode(proc, 0, "").success}

\* A call of a simple store_* method that the external ledger does not
\* acknowledge, whatever it has acknowledged before
StoreRefused ==
    /\ ~simulation_mode
    /\ \/ \E c \in PatientStores :
             StoreAttempt("store_patient", "PATIENT", "patient_", ToString(c.id), c,
                          build_patient_hash(c.data), RefusedInvokes)
       \/ \E c \in VisitStores :
             StoreAttempt("store_visit", "VISIT", "visit_", ToString(c.patient_id), c,
                          build_visit_hash(c.data), RefusedInvokes)
       \/ \E c \in PrescriptionStores :
             StoreAttempt("store_prescription", "PRESCRIPTION", "prescription_",
                          ToString(c.patient_id), c,
                          build_prescription_hash(c.data, c.medications), RefusedInvokes)
       \/ \E c \in InvoiceStores :
             StoreAttempt("store_invoice", "INVOICE", "invoice_", ToString(c.patient_id), c,
                          build_invoice_hash(c.data, c.items), RefusedInvokes)
       \/ \E c \in AppointmentStores :
             StoreAttempt("store_appointment", "APPOINTMENT", "appointment_",
                          ToString(c.patient_id), c, build_appointment_hash(c.data),
                          RefusedInvokes)

\* the longest list verify_patient_batch is called with
MaxBatch == 2

\* the (patient_id, patient_data) tuples the lists are made of
BatchPatients == {[id |-> 1, data |-> Ann], [id |-> 2, data |-> Bob]}

\* what the peer process answers to the queries of a batch: the entry of Ann,
\* no entry, a JSON array, a failed query
BatchQueryOutcomes ==
    {ProcExit(0, "{patient}\n", ""),
     ProcExit(0, "null\n", ""),
     ProcExit(0, "[]", ""),
     ProcExit(1, "", "record does not exist")}

\* A call of IntegrityService.verify_patient_batch; every element's
\* verify_patient asks the ledger on its own
VerifyPatientBatch ==
    /\ \E n \in 0..MaxBatch :
          \E patients \in [1..n -> BatchPatients], procs \in [1..n -> Procs(BatchQueryOutcomes)] :
             \E gets \in {[i \in 1..n |->
                             get_record_hash(ledger, "patient_" \o ToString(patients[i].id),
                                             simulation_mode, procs[i])]} :
                last' = [op |-> "verify_patient_batch", args |-> [patients |-> patients],
                         gets |-> gets, ret |-> verify_patient_batch(gets, patients, now)]
    /\ UNCHANGED <<running, simulation_mode, ledger, db, now, appended>>

\* the longest medications / items list the hash builders are called with
MaxList == 3

\* A call of HashBuilder.build_prescription_hash; two of the medications share
\* their medicine_name
BuildPrescriptionHash ==
    /\ \E n \in 0..MaxList :
          \E medications \in [1..n -> {Zinc, Aspirin,
                                       [medicine_name |-> PyStr("Zinc"),
                                        quantity |-> PyInt(20)]}] :
             last' = [op |-> "build_prescription_hash",
                      args |-> [data |-> Rx, medications |-> medications],
                      ret |-> build_prescription_hash(Rx, medications)]
    /\ UNCHANGED <<running, simulation_mode, ledger, db, now, appended>>

\* A call of HashBuilder.build_invoice_hash; two of the items share their
\* category and description
BuildInvoiceHash ==
    /\ \E n \in 0..MaxList :
          \E items \in [1..n -> {LabItem, BedItem,
                                 [category |-> PyStr("Lab"), description |-> PyStr("CBC"),
                                  quantity |-> PyInt(2)]}] :
             last' = [op |-> "build_invoice_hash",
                      args |-> [data |-> Inv, items |-> items],
                      ret |-> build_invoice_hash(Inv, items)]
    /\ UNCHANGED <<running, simulation_mode, ledger, db, now, appended>>

\* the hash builder of each record type, on a record without list
BuildHash(record_type, fields) ==
    CASE record_type = "PATIENT" -> build_patient_hash(fields)
      [] record_type = "VISIT" -> build_visit_hash(fields)
      [] record_type = "PRESCRIPTION" -> build_prescription_hash(fields, <<>>)
      [] record_type = "INVOICE" -> build_invoice_hash(fields, <<>>)
      [] record_type = "APPOINTMENT" -> build_appointment_hash(fields)
      [] record_type = "REPORT" -> build_report_form_hash(fields)

\* the fields each builder hashes
HashedFields(record_type) ==
    CASE record_type = "PATIENT" -> PatientFields
      [] record_type = "VISIT" -> VisitFields
      [] record_type = "PRESCRIPTION" -> PrescriptionFields
      [] record_type = "INVOICE" -> InvoiceFields
      [] record_type = "APPOINTMENT" -> AppointmentFields
      [] record_type = "REPORT" -> ReportFields

RecordTypes == {"PATIENT", "VISIT", "PRESCRIPTION", "INVOICE", "APPOINTMENT", "REPORT"}

\* values of the kinds _normalize_value tells apart
FieldValues ==
    {None, PyBool(TRUE), PyInt(0), PyList(<<PyInt(1)>>),
     PyStr(""), PyStr("true"), PyStr("0"), PyStr("[1]"), PyStr("a"), PyStr(" a")}

\* A call of a hash builder on a record that holds one field
BuildFieldHash ==
    /\ \E record_type \in RecordTypes, value \in FieldValues :
          \E i \in 1..Len(HashedFields(record_type)) :
             LET field == HashedFields(record_type)[i]
             IN last' = [op |-> "build_hash",
                         args |-> [record_type |-> record_type, field |-> field,
                                   value |-> value],
                         ret |-> BuildHash(record_type, DictSet(EmptyDict, field, value))]
    /\ UNCHANGED <<running, simulation_mode, ledger, db, now, appended>>

\* A call of IntegrityService.get_record_audit_trail
GetRecordAuditTrail ==
    /\ \E record_id \in {"patient_1", "patient_2", "visit_1", "prescription_1", "report_1"},
          proc \in Procs(QueryOutcomes) :
          \E get \in {get_record_history(ledger, record_id, simulation_mode, proc)} :
             last' = [op |-> "get_record_audit_trail", args |-> [record_id |-> record_id],
                      get |-> get, ret |-> get_record_audit_trail(get, record_id, now)]
    /\ UNCHANGED <<running, simulation_mode, ledger, db, now, appended>>

\* A call of IntegrityService.get_patient_audit_summary; the dict of the
\* simulation ledger holds its keys in the order of their first append, which
\* the model's ledger does not keep: every order is taken
GetPatientAuditSummary ==
    /\ \E patient_id \in {"1", "2", "3"}, proc \in Procs(QueryOutcomes) :
          \E order \in {o \in [1..Cardinality(DOMAIN ledger) -> DOMAIN ledger] :
                            \A i, j \in DOMAIN o : o[i] = o[j] => i = j} :
             \E get \in {get_records_by_patient(ledger, patient_id, simulation_mode,
                                                order, proc)} :
                last' = [op |-> "get_patient_audit_summary",
                         args |-> [patient_id |-> patient_id],
                         get |-> get, ret |-> get_patient_audit_summary(get, patient_id, now)]
    /\ UNCHANGED <<running, simulation_mode, ledger, db, now, appended>>

\* A direct call of IPFSClient.upload_file under one configuration
UploadFile ==
    /\ \E cfg \in IpfsConfigs, http \in UploadOutcomes :
          last' = [op |-> "upload_file", cfg |-> cfg, http |-> http,
                   upload |-> upload_file(cfg, "aes256cbc(1111,AB)", "scan.pdf.enc", http)]
    /\ UNCHANGED <<running, simulation_mode, ledger, db, now, appended>>

\* EncryptionService.encrypt_and_encode on a file
EncryptAndEncode ==
    /\ \E file_data \in Plaintexts, iv \in IVs :
          last' = [op |-> "encrypt_and_encode", file_data |-> file_data, iv |-> iv,
                   ret |-> encrypt_and_encode(file_data, iv)]
    /\ UNCHANGED <<running, simulation_mode, ledger, db, now, appended>>

\* EncryptionService.decode_and_decrypt on what encrypt_and_encode returned
DecodeAndDecrypt ==
    /\ last.op = "encrypt_and_encode"
    /\ last' = [op |-> "decode_and_decrypt", file_data |-> last.file_data,
                encoded_data |-> last.ret, ret |-> decode_and_decrypt(last.ret)]
    /\ UNCHANGED <<running, simulation_mode, ledger, db, now, appended>>

\* EncryptionService.encrypt_for_storage on a file
EncryptForStorage ==
    /\ \E file_data \in Plaintexts, iv \in IVs :
          last' = [op |-> "encrypt_for_storage", file_data |-> file_data, iv |-> iv,
                   ret |-> EncryptForStorageBytes(file_data, iv)]
    /\ UNCHANGED <<running, simulation_mode, ledger, db, now, appended>>

\* EncryptionService.decrypt_from_storage on what the caller has kept of an
\* earlier encrypt_for_storage
DecryptFromStorage ==
    /\ last.op = "encrypt_for_storage"
    /\ \E encrypted_data \in GivenCiphertexts(last.ret.encrypted, last.iv),
          iv_hex \in GivenIVs :
          last' = [op |-> "decrypt_from_storage", file_data |-> last.file_data,
                   stored |-> last.ret, encrypted_data |-> encrypted_data,
                   iv_hex |-> iv_hex,
                   ret |-> decrypt_from_storage(encrypted_data, iv_hex)]
    /\ UNCHANGED <<running, simulation_mode, ledger, db, now, appended>>

\* BlockchainService.download_report_file for a file encrypted earlier
DownloadReportFile ==
    /\ last.op = "encrypt_for_storage"
    /\ \E http \in {HttpResponse(200, last.ret.encrypted, ""),
                    HttpResponse(200, SubSeq(last.ret.encrypted, 1,
                                             Len(last.ret.encrypted) - 1), ""),
                    HttpResponse(404, <<>>, "not found"),
                    HttpException("timed out")},
          encryption_iv \in GivenIVs :
          last' = [op |-> "download_report_file", file_data |-> last.file_data,
                   stored |-> last.ret, http |-> http, iv_hex |-> encryption_iv,
                   ret |-> download_report_file("QmA", encryption_iv, http)]
    /\ UNCHANGED <<running, simulation_mode, ledger, db, now, appended>>

\* _simulate_add_record run by several threads on the one FabricClient, which
\* holds no lock: a thread builds its record and tests `record_id not in
\* self._simulated_ledger`
CheckMembership ==
    /\ simulation_mode
    /\ \E c \in Callers, record_id \in LedgerKeys, hash_payload \in LedgerPayloads :
          /\ running[c] = Idle
          /\ running' =
                [running EXCEPT ![c] =
                    [pc |-> IF record_id \notin DOMAIN ledger THEN "first" ELSE "rotate",
                     record |-> SimulatedRecord(record_id, "PATIENT", "1", hash_payload,
                                                None, now, CallerRandom(c))]]
    /\ UNCHANGED <<simulation_mode, ledger, db, now, appended, last>>

\* the branch taken for an absent key: the entry is installed with an empty
\* history, over whatever the key holds by now, and the call returns
InstallFirst ==
    /\ \E c \in Callers :
          /\ running[c].pc = "first"
          /\ ledger' = DictSet(ledger, running[c].record.recordID,
                               [current |-> running[c].record, history |-> <<>>])
          /\ Returns(c)
    /\ UNCHANGED <<simulation_mode, db, now>>

\* the branch taken for a present key, first statement: the current entry is
\* appended to the history
RotateCurrent ==
    /\ \E c \in Callers :
          /\ running[c].pc = "rotate"
          /\ LET k == running[c].record.recordID
             IN ledger' = DictSet(ledger, k,
                                  [ledger[k] EXCEPT
                                      !.history = Append(ledger[k].history,
                                                         ledger[k].current)])
          /\ running' = [running EXCEPT ![c].pc = "install"]
    /\ UNCHANGED <<simulation_mode, db, now, appended, last>>

\* second statement: the new entry becomes current, and the call returns
InstallCurrent ==
    /\ \E c \in Callers :
          /\ running[c].pc = "install"
          /\ LET k == running[c].record.recordID
             IN ledger' = DictSet(ledger, k,
                                  [ledger[k] EXCEPT !.current = running[c].record])
          /\ Returns(c)
    /\ UNCHANGED <<simulation_mode, db, now>>

\* the orders in which the dict of the ledger can hold its keys
KeyOrders ==
    {o \in [1..Cardinality(DOMAIN ledger) -> DOMAIN ledger] :
        \A i, j \in DOMAIN o : o[i] = o[j] => i = j}

\* A direct call of FabricClient.get_record_history
GetRecordHistory ==
    /\ \E record_id \in LedgerKeys, proc \in Procs(QueryOutcomes) :
          last' = [op |-> "get_record_history", args |-> [record_id |-> record_id],
                   get |-> get_record_history(ledger, record_id, simulation_mode, proc)]
    /\ UNCHANGED <<running, simulation_mode, ledger, db, now, appended>>

\* A direct call of FabricClient.verify_hash
VerifyHash ==
    /\ \E record_id \in LedgerKeys, hash_to_verify \in {"aa11", "bb22", ""},
          proc \in Procs(QueryOutcomes) :
          last' = [op |-> "verify_hash",
                   args |-> [record_id |-> record_id, hash_to_verify |-> hash_to_verify],
                   get |-> verify_hash(ledger, record_id, hash_to_verify,
                                       simulation_mode, proc)]
    /\ UNCHANGED <<running, simulation_mode, ledger, db, now, appended>>

\* A direct call of FabricClient.get_records_by_patient
GetRecordsByPatient ==
    /\ \E patient_id \in {"1", "2"}, order \in KeyOrders, proc \in Procs(QueryOutcomes) :
          last' = [op |-> "get_records_by_patient", args |-> [patient_id |-> patient_id],
                   get |-> get_records_by_patient(ledger, patient_id, simulation_mode,
                                                  order, proc)]
    /\ UNCHANGED <<running, simulation_mode, ledger, db, now, appended>>

\* A direct call of FabricClient.get_records_by_type
GetRecordsByType ==
    /\ \E record_type \in {"PATIENT", "VISIT"}, order \in KeyOrders,
          proc \in Procs(QueryOutcomes) :
          last' = [op |-> "get_records_by_type", args |-> [record_type |-> record_type],
                   get |-> get_records_by_type(ledger, record_type, simulation_mode,
                                               order, proc)]
    /\ UNCHANGED <<running, simulation_mode, ledger, db, now, appended>>

\* The wall clock advances
Tick ==
    /\ now < MaxClock
    /\ now' = now + 1
    /\ UNCHANGED <<running, simulation_mode, ledger, db, appended, last>>

\* A direct call of FabricClient.add_record_hash
AddRecordHash ==
    /\ TotalAppended < AppendBound
    /\ \E record_id \in LedgerKeys, hash_payload \in LedgerPayloads, rnd \in Randoms,
          proc \in Procs(LedgerInvokeOutcomes) :
          \E r \in {add_record_hash(ledger, record_id, "PATIENT", "1", hash_payload, None,
                                     simulation_mode, now, rnd, proc)} :
             LET args == [record_id |-> record_id, hash_payload |-> hash_payload]
             IN /\ ledger' = r.ledger
                /\ appended' = Acknowledge(r, args)
                /\ \E cfg \in FabricConfigs :
                      last' = [op |-> "add_record_hash", args |-> args,
                               add |-> AddSeen(r),
                               configured |-> is_configured(simulation_mode, cfg),
                               proc |-> proc]
    /\ UNCHANGED <<running, simulation_mode, db, now>>

\* A direct call of FabricClient.get_record_hash
GetRecordHash ==
    /\ \E record_id \in LedgerKeys, proc \in Procs(QueryOutcomes) :
          last' = [op |-> "get_record_hash", args |-> [record_id |-> record_id],
                   get |-> get_record_hash(ledger, record_id, simulation_mode, proc)]
    /\ UNCHANGED <<running, simulation_mode, ledger, db, now, appended>>

-----------------------------------------------------------------------------
\* config.py: BLOCKCHAIN_SIMULATION_MODE defaults to 'true'
Init ==
    /\ simulation_mode = TRUE
    /\ ledger = EmptyDict
    /\ db = EmptyDict
    /\ now = 0
    /\ appended = EmptyDict
    /\ last = [op |-> "init"]
    /\ running = [c \in Callers |-> Idle]

\* BLOCKCHAIN_SIMULATION_MODE=false: the ledger is the external peer process
InitExternal ==
    /\ simulation_mode = FALSE
    /\ ledger = EmptyDict
    /\ db = EmptyDict
    /\ now = 0
    /\ appended = EmptyDict
    /\ last = [op |-> "init"]
    /\ running = [c \in Callers |-> Idle]

Next ==
    \/ StorePatient
    \/ StoreVisit
    \/ StorePrescription
    \/ StoreInvoice
    \/ StoreAppointment
    \/ StoreReport
    \/ VerifyPatient
    \/ VerifyVisit
    \/ VerifyPrescription
    \/ VerifyInvoice
    \/ VerifyAppointment
    \/ VerifyReport
    \/ Tick

Spec == Init /\ [][Next]_vars

\* The service over the external backend
SpecExternal == InitExternal /\ [][Next]_vars

\* The store_* methods alone, over the external backend
NextStores ==
    \/ StorePatient
    \/ StoreVisit
    \/ StorePrescription
    \/ StoreInvoice
    \/ StoreAppointment
    \/ StoreReport
    \/ StoreRefused
    \/ Tick

SpecStoresExternal == InitExternal /\ [][NextStores]_vars

\* Batch verification over the external backend
NextBatch ==
    \/ VerifyPatientBatch
    \/ Tick

SpecBatchExternal == InitExternal /\ [][NextBatch]_vars

\* The hash builders called directly
NextHash ==
    \/ BuildPrescriptionHash
    \/ BuildInvoiceHash
    \/ BuildFieldHash

SpecHash == Init /\ [][NextHash]_vars

\* The store_* methods and the audit queries
NextAudit ==
    \/ StorePatient
    \/ StoreVisit
    \/ StorePrescription
    \/ StoreInvoice
    \/ StoreAppointment
    \/ StoreReport
    \/ GetRecordAuditTrail
    \/ GetPatientAuditSummary
    \/ Tick

SpecAudit == Init /\ [][NextAudit]_vars

\* The content-store client called directly
NextUpload ==
    \/ UploadFile
    \/ Tick

SpecUpload == Init /\ [][NextUpload]_vars

\* The encryption service, and the download that decrypts
NextEncryption ==
    \/ EncryptAndEncode
    \/ DecodeAndDecrypt
    \/ EncryptForStorage
    \/ DecryptFromStorage
    \/ DownloadReportFile

SpecEncryption == Init /\ [][NextEncryption]_vars

\* The two clients called directly over the external backend, under every
\* configuration
NextConfig ==
    \/ AddRecordHash
    \/ UploadFile

SpecConfig == InitExternal /\ [][NextConfig]_vars

\* Threads appending to the simulation ledger at once
NextConcurrent ==
    \/ CheckMembership
    \/ InstallFirst
    \/ RotateCurrent
    \/ InstallCurrent
    \/ Tick

SpecConcurrent == Init /\ [][NextConcurrent]_vars

\* The appends and every read operation of the ledger client and of the
\* integrity service
NextFrame ==
    \/ AddRecordHash
    \/ GetRecordHash
    \/ GetRecordHistory
    \/ VerifyHash
    \/ GetRecordsByPatient
    \/ GetRecordsByType
    \/ VerifyPatient
    \/ VerifyVisit
    \/ VerifyPrescription
    \/ VerifyInvoice
    \/ VerifyAppointment
    \/ VerifyReport
    \/ Tick

SpecFrame == Init /\ [][NextFrame]_vars

\* The ledger client called directly
NextLedger ==
    \/ AddRecordHash
    \/ GetRecordHash
    \/ Tick

SpecLedger == Init /\ [][NextLedger]_vars

\* The ledger client over the external backend
SpecLedgerExternal == InitExternal /\ [][NextLedger]_vars

-----------------------------------------------------------------------------
(* What the calls of the service decide, read off the last call *)

SimpleVerifyOps ==
    {"verify_patient", "verify_visit", "verify_prescription", "verify_invoice",
     "verify_appointment"}

VerifyOps == SimpleVerifyOps \cup {"verify_report"}

\* the ledger key a call of the service with arguments `args` addresses
KeyOf(op, args) ==
    CASE op \in {"store_patient", "verify_patient"} -> "patient_" \o ToString(args.id)
      [] op \in {"store_visit", "verify_visit"} -> "visit_" \o ToString(args.id)
      [] op \in {"store_prescription", "verify_prescription"} ->
            "prescription_" \o ToString(args.id)
      [] op \in {"store_invoice", "verify_invoice"} -> "invoice_" \o ToString(args.id)
      [] op \in {"store_appointment", "verify_appointment"} ->
            "appointment_" \o ToString(args.id)
      [] op \in {"store_report", "verify_report"} -> "report_" \o ToString(args.id)

\* the digest the service computes from the fields of a simple-type call
DigestOf(op, args) ==
    CASE op \in {"store_patient", "verify_patient"} -> build_patient_hash(args.data)
      [] op \in {"store_visit", "verify_visit"} -> build_visit_hash(args.data)
      [] op \in {"store_prescription", "verify_prescription"} ->
            build_prescription_hash(args.data, args.medications)
      [] op \in {"store_invoice", "verify_invoice"} ->
            build_invoice_hash(args.data, args.items)
      [] op \in {"store_appointment", "verify_appointment"} ->
            build_appointment_hash(args.data)

\* the arguments of the most recent store the ledger acknowledged under key
LatestStore(key) == appended[key][Len(appended[key])].args

-----------------------------------------------------------------------------
\* C1: in the simulation ledger, after N >= 1 successful appends to one key the
\* history has length N-1 and holds the first N-1 appended entries, oldest
\* first, and current is the N-th appended entry.
C1_HistoryHoldsEarlierAppends ==
    \A k \in DOMAIN appended :
        LET n == Len(appended[k])
        IN n >= 1 =>
              /\ k \in DOMAIN ledger
              /\ Len(ledger[k].history) = n - 1
              /\ \A i \in 1..(n - 1) : ledger[k].history[i] = appended[k][i].record
              /\ ledger[k].current = appended[k][n].record

\* three appends to one key, the first two of them different entries
C1_ThreeAppendsToOneKey ==
    \E k \in DOMAIN appended :
        /\ Len(appended[k]) = 3
        /\ appended[k][1].record # appended[k][2].record
        /\ Len(ledger[k].history) = 2

\* C2: after successful stores of one record id, a simple-type verify of that id
\* returns VALID when the fields give the digest of the most recent store and
\* TAMPERED when they give any other digest, a superseded store's included.
C2_TamperEvidence ==
    (last.op \in SimpleVerifyOps /\ KeyOf(last.op, last.args) \in DOMAIN appended) =>
        LET stored == LatestStore(KeyOf(last.op, last.args))
            committed == DigestOf(last.op, stored)
        IN IF DigestOf(last.op, last.args) = committed
           THEN last.ret.status = "VALID" /\ last.ret.verified
           ELSE last.ret.status = "TAMPERED" /\ ~last.ret.verified

\* a verify with the fields of a superseded store comes back TAMPERED
C2_SupersededDigestIsTampered ==
    /\ last.op = "verify_patient"
    /\ "patient_1" \in DOMAIN appended
    /\ Len(appended["patient_1"]) = 2
    /\ last.args.id = 1
    /\ DigestOf(last.op, last.args) = DigestOf(last.op, appended["patient_1"][1].args)
    /\ DigestOf(last.op, last.args) # DigestOf(last.op, appended["patient_1"][2].args)
    /\ last.ret.status = "TAMPERED"

\* C3: verifying a record whose key was never appended returns NOT_FOUND with
\* verified = false, for the simple types and for reports.
C3_NeverAppendedIsNotFound ==
    (last.op \in VerifyOps /\ KeyOf(last.op, last.args) \notin DOMAIN appended) =>
        last.ret.status = "NOT_FOUND" /\ ~last.ret.verified

\* what the simulated ledger makes of it: ERROR, "Record not found"
C3_NeverAppendedIsError ==
    /\ last.op = "verify_patient"
    /\ ledger = EmptyDict
    /\ last.ret.status = "ERROR"
    /\ last.ret.error = "Record not found"
    /\ ~last.ret.verified

\* C4: when the upload of store_report fails, the call returns success = false
\* with the upload's error, and the ledger and the cross-reference table are
\* what they were: no append is made.
C4_UploadFailureAborts ==
    [][(/\ last'.op = "store_report"
        /\ last'.upload.called
        /\ last'.upload.ret.raised = ""
        /\ ~last'.upload.ret.success)
       => (/\ ledger' = ledger
           /\ db' = db
           /\ appended' = appended
           /\ ~last'.add.called
           /\ last'.ret.success = FALSE
           /\ last'.ret.error = PyStr("IPFS upload failed: " \o last'.upload.ret.error))]_vars

\* a store_report whose upload failed, made when the ledger and the table
\* already hold the report
C4_UploadFailedAfterStore ==
    /\ last.op = "store_report"
    /\ last.upload.called
    /\ last.upload.ret.raised = ""
    /\ ~last.upload.ret.success
    /\ "report_1" \in DOMAIN ledger
    /\ <<"REPORT", 1>> \in DOMAIN db
    /\ last.ret.success = FALSE

\* C5: a simple-type verify of a key the ledger holds is VALID with
\* verified = true exactly when the recomputed digest equals the hash of the
\* key's current entry, TAMPERED with verified = false otherwise, and carries the
\* recomputed digest, the stored digest and the current entry's transaction id
\* and timestamp.
C5_VerifyComparesWithCurrent ==
    (last.op \in SimpleVerifyOps /\ KeyOf(last.op, last.args) \in DOMAIN ledger) =>
        LET current == ledger[KeyOf(last.op, last.args)].current
            recomputed == DigestOf(last.op, last.args)
        IN /\ last.ret.verified = (recomputed = current.hashPayload.hash)
           /\ last.ret.status =
                 IF recomputed = current.hashPayload.hash THEN "VALID" ELSE "TAMPERED"
           /\ last.ret.currentHash = recomputed
           /\ last.ret.storedHash = current.hashPayload.hash
           /\ last.ret.transactionId = PyStr(current.txID)
           /\ last.ret.blockchainTimestamp = PyStr(current.timestamp)

\* a VALID verify made after the clock has moved on from the store
C5_ValidVerifyLaterThanStore ==
    /\ last.op \in SimpleVerifyOps
    /\ KeyOf(last.op, last.args) \in DOMAIN ledger
    /\ last.ret.status = "VALID"
    /\ last.ret.timestamp # ledger[KeyOf(last.op, last.args)].current.timestamp
    /\ last.ret.blockchainTimestamp =
          PyStr(ledger[KeyOf(last.op, last.args)].current.timestamp)

\* C6: at the verification layer a get result with success = true and no data
\* yields NOT_FOUND, never an exception and never ERROR, and a result with
\* success = false yields ERROR; verified = false in both; for the simple types
\* and for verify_report.
C6_NullDataIsNotFound ==
    last.op \in VerifyOps =>
        /\ (last.get.success /\ last.get.data = None) =>
              /\ "status" \in DOMAIN last.ret
              /\ last.ret.status = "NOT_FOUND"
              /\ ~last.ret.verified
        /\ ~last.get.success =>
              /\ "status" \in DOMAIN last.ret
              /\ last.ret.status = "ERROR"
              /\ ~last.ret.verified

\* the peer process printed `null`, and a simple-type verify made NOT_FOUND of it
C6_NullFromPeerIsNotFound ==
    /\ last.op \in SimpleVerifyOps
    /\ last.get.success
    /\ last.get.data = None
    /\ last.ret.status = "NOT_FOUND"

\* C7: a key the simulation ledger holds is never removed, and an append to it
\* extends its history by exactly the previous current entry at the end, so the
\* history before is a prefix of the history after; no other step changes it.
C7_HistoryOnlyGrows ==
    [][\A k \in DOMAIN ledger :
          /\ k \in DOMAIN ledger'
          /\ IF Len(appended'[k]) > Len(appended[k])
             THEN ledger'[k].history = Append(ledger[k].history, ledger[k].current)
             ELSE ledger'[k] = ledger[k]]_vars

\* a key whose history has grown twice, by two different entries
C7_HistoryGrownTwice ==
    \E k \in DOMAIN ledger :
        /\ Len(ledger[k].history) = 2
        /\ ledger[k].history[1].hashPayload # ledger[k].history[2].hashPayload

\* C8: after a successful append, a get of the key succeeds with the current
\* entry, whose hashPayload is the payload just appended and whose txID is the
\* transaction id the append returned, whatever the ledger held before.
C8_GetReturnsWhatWasAppended ==
    (last.op = "add_record_hash" /\ last.add.success) =>
        LET got == get_record_hash(ledger, last.args.record_id, simulation_mode, NoProc)
        IN /\ got.success
           /\ got.data = ledger[last.args.record_id].current
           /\ got.data.hashPayload = last.args.hash_payload
           /\ got.data.txID = last.add.tx_id

\* an append over an earlier entry of the same key, with another key in the ledger
C8_AppendOverEarlierEntry ==
    /\ last.op = "add_record_hash"
    /\ last.add.success
    /\ Len(ledger[last.args.record_id].history) = 1
    /\ ledger[last.args.record_id].history[1].hashPayload # last.args.hash_payload
    /\ Cardinality(DOMAIN ledger) = 2

\* C9: when store_report is called with file bytes and returns success, the
\* entry appended under report_<id> holds formHash, a fileHash that is the digest
\* of the bytes supplied, and the locator the upload returned; called without
\* file bytes, the entry holds formHash only.
C9_ReportEntryHoldsFileDigest ==
    (last.op = "store_report" /\ "success" \in DOMAIN last.ret /\ last.ret.success) =>
        LET entry == ledger[KeyOf(last.op, last.args)].current.hashPayload
        IN IF last.args.file_data # None
           THEN /\ "formHash" \in DOMAIN entry
                /\ entry.formHash = build_report_form_hash(last.args.data)
                /\ "fileHash" \in DOMAIN entry
                /\ entry.fileHash = generate_file_hash(last.args.file_data.by)
                /\ last.upload.called =>
                      DictGet(entry, "ipfsHash", "") = last.upload.ret.ipfs_hash
           ELSE /\ DOMAIN entry = {"formHash"}
                /\ entry.formHash = build_report_form_hash(last.args.data)

\* what store_report makes of a file of no bytes: an entry without its digest
C9_EmptyFileLeavesNoDigest ==
    /\ last.op = "store_report"
    /\ last.args.file_data = PyBytes("")
    /\ last.args.filename = PyStr("empty.pdf")
    /\ last.ret.success
    /\ DOMAIN ledger["report_1"].current.hashPayload = {"formHash"}
    /\ ~last.upload.called

\* C10: after a successful store_report of a report with a file, verify_report
\* with the same form fields and the identical bytes returns formVerified,
\* fileVerified and verified all true (VALID); with bytes of another digest it
\* returns fileVerified = false and verified = false (TAMPERED).
C10_ReportVerifyAfterStore ==
    (/\ last.op = "verify_report"
     /\ KeyOf(last.op, last.args) \in DOMAIN appended
     /\ LatestStore(KeyOf(last.op, last.args)).file_data # None) =>
        LET stored == LatestStore(KeyOf(last.op, last.args))
        IN /\ (last.args.data = stored.data /\ last.args.file_data = stored.file_data) =>
                 /\ last.ret.formVerified
                 /\ last.ret.fileVerified = PyBool(TRUE)
                 /\ last.ret.verified
                 /\ last.ret.status = "VALID"
           /\ (/\ last.args.file_data # None
               /\ generate_file_hash(last.args.file_data.by)
                     # generate_file_hash(stored.file_data.by)) =>
                 /\ last.ret.fileVerified = PyBool(FALSE)
                 /\ ~last.ret.verified
                 /\ last.ret.status = "TAMPERED"

\* a report stored with a file of no bytes fails the verify made with that file
C10_EmptyFileFailsItsOwnVerify ==
    /\ last.op = "verify_report"
    /\ "report_1" \in DOMAIN appended
    /\ LatestStore("report_1").file_data = PyBytes("")
    /\ last.args.data = LatestStore("report_1").data
    /\ last.args.file_data = PyBytes("")
    /\ last.ret.formVerified
    /\ last.ret.fileVerified = PyBool(FALSE)
    /\ last.ret.status = "TAMPERED"

\* C11: verify_report compares formHash always and fileHash only when file
\* bytes are supplied: without them fileVerified is null, not false, and
\* verified equals formVerified; with them verified is formVerified and
\* fileVerified; the status is VALID exactly when verified is true.
C11_FileComparedOnlyWhenSupplied ==
    (last.op = "verify_report" /\ KeyOf(last.op, last.args) \in DOMAIN ledger) =>
        LET stored == ledger[KeyOf(last.op, last.args)].current.hashPayload
            form_matches ==
                build_report_form_hash(last.args.data) = DictGet(stored, "formHash", "")
        IN /\ last.ret.formVerified = form_matches
           /\ IF last.args.file_data = None
              THEN /\ last.ret.fileVerified = None
                   /\ last.ret.verified = form_matches
              ELSE LET file_matches ==
                           generate_file_hash(last.args.file_data.by)
                              = DictGet(stored, "fileHash", "")
                   IN /\ last.ret.fileVerified = PyBool(file_matches)
                      /\ last.ret.verified = (form_matches /\ file_matches)
           /\ (last.ret.status = "VALID") = last.ret.verified
           /\ last.ret.status \in {"VALID", "TAMPERED"}

\* a report stored with a file and verified without it: VALID, the file undetermined
C11_ValidWithoutFileBytes ==
    /\ last.op = "verify_report"
    /\ KeyOf(last.op, last.args) \in DOMAIN ledger
    /\ "fileHash" \in DOMAIN ledger[KeyOf(last.op, last.args)].current.hashPayload
    /\ last.args.file_data = None
    /\ last.ret.fileVerified = None
    /\ last.ret.verified
    /\ last.ret.status = "VALID"

-----------------------------------------------------------------------------
SimpleStoreOps ==
    {"store_patient", "store_visit", "store_prescription", "store_invoice",
     "store_appointment"}

\* C12: a call of a simple store_* method succeeds exactly when the ledger
\* append succeeds; on success the result carries the key '<type>_<id>', the
\* digest of the fields, the ledger's transaction id and no error; when the
\* append fails the result carries the ledger's error and no transaction id,
\* the cross-reference table is left as it was, and so are the ledger and
\* everything acknowledged before.
C12_StoreResultFollowsAppend ==
    [][ last'.op \in SimpleStoreOps =>
            /\ last'.add.called
            /\ last'.ret.success = last'.add.success
            /\ last'.ret.recordId = KeyOf(last'.op, last'.args)
            /\ last'.ret.hash = DigestOf(last'.op, last'.args)
            /\ last'.add.success =>
                  /\ last'.ret.transactionId = PyStr(last'.add.tx_id)
                  /\ last'.ret.error = None
            /\ ~last'.add.success =>
                  /\ last'.ret.error = PyStr(last'.add.error)
                  /\ last'.ret.transactionId = None
                  /\ db' = db
                  /\ ledger' = ledger
                  /\ appended' = appended ]_vars

C12_RefusedAfterCommittedStore ==
    /\ last.op \in SimpleStoreOps
    /\ ~last.ret.success
    /\ last.ret.error # None
    /\ last.ret.transactionId = None
    /\ DOMAIN db # {}
    /\ DOMAIN appended # {}

-----------------------------------------------------------------------------
\* C13: verify_patient_batch returns one result per element of its input, in
\* the input's order, each equal to what verify_patient returns for that
\* element; totalRecords is the length of the input, the four per-status
\* counts sum to it, and each count is the number of results with that status.
\* The batch raises exactly when the verify_patient of some element raises.
C13_BatchIsElementwiseVerify ==
    last.op = "verify_patient_batch" =>
        LET patients == last.args.patients
            n == Len(patients)
            single(i, t) == _verify_record(last.gets[i], KeyOf("verify_patient", patients[i]),
                                           DigestOf("verify_patient", patients[i]),
                                           "PATIENT", t)
            with(status) == Cardinality({i \in 1..n : last.ret.results[i].status = status})
        IN IF \E i \in 1..n : "raised" \in DOMAIN single(i, 0)
           THEN "raised" \in DOMAIN last.ret
           ELSE /\ "raised" \notin DOMAIN last.ret
                /\ Len(last.ret.results) = n
                /\ \E t \in 0..MaxClock :
                      /\ last.ret.timestamp = IsoFormat(t)
                      /\ \A i \in 1..n : last.ret.results[i] = single(i, t)
                /\ last.ret.totalRecords = n
                /\ last.ret.validRecords + last.ret.tamperedRecords
                      + last.ret.notFoundRecords + last.ret.errorRecords = n
                /\ last.ret.validRecords = with("VALID")
                /\ last.ret.tamperedRecords = with("TAMPERED")
                /\ last.ret.notFoundRecords = with("NOT_FOUND")
                /\ last.ret.errorRecords = with("ERROR")

C13_BatchOfTwoStatuses ==
    /\ last.op = "verify_patient_batch"
    /\ Len(last.args.patients) = 2
    /\ "raised" \notin DOMAIN last.ret
    /\ last.ret.results[1].status = "NOT_FOUND"
    /\ last.ret.results[2].status = "TAMPERED"
    /\ last.ret.notFoundRecords = 1
    /\ last.ret.tamperedRecords = 1

-----------------------------------------------------------------------------
\* C14: every store_* and verify_* call returns a result for every outcome of
\* its collaborators (failed upload, malformed provider response, failed or
\* timed-out ledger call, malformed ledger payload); none ends in an
\* exception that reaches the caller.
C14_NoUncaughtException ==
    "ret" \in DOMAIN last => "raised" \notin DOMAIN last.ret

\* verify_patient, the peer process answering the query with a JSON array
C14_VerifyRaisesOnArrayPayload ==
    /\ last.op = "verify_patient"
    /\ last.get.success
    /\ last.get.data = PyList(<<>>)
    /\ "raised" \in DOMAIN last.ret
    /\ last.ret.raised = "AttributeError"

-----------------------------------------------------------------------------
\* C15: the prescription digest and the invoice digest do not depend on the
\* order of the medications / items list: every permutation of the list gives
\* the digest the list gave.
C15_ListOrderDoesNotMatter ==
    LET Permuted(xs, p) == [i \in 1..Len(xs) |-> xs[p[i]]]
    IN /\ last.op = "build_prescription_hash" =>
             \A p \in Permutations(1..Len(last.args.medications)) :
                 build_prescription_hash(last.args.data,
                                         Permuted(last.args.medications, p)) = last.ret
       /\ last.op = "build_invoice_hash" =>
             \A p \in Permutations(1..Len(last.args.items)) :
                 build_invoice_hash(last.args.data, Permuted(last.args.items, p)) = last.ret

\* two medications of one medicine_name that differ in another field: the
\* digest of the list is not the digest of the list reversed
C15_TiedNamesKeepCallerOrder ==
    /\ last.op = "build_prescription_hash"
    /\ Len(last.args.medications) = 2
    /\ last.args.medications[1].medicine_name = last.args.medications[2].medicine_name
    /\ last.args.medications[1] # last.args.medications[2]
    /\ build_prescription_hash(last.args.data,
                               <<last.args.medications[2], last.args.medications[1]>>)
          # last.ret

-----------------------------------------------------------------------------
\* C16: for every record type and every hashed field, giving the field a
\* different value (null, boolean, number, string or list) gives a different
\* digest.
C16_FieldChangeChangesDigest ==
    last.op = "build_hash" =>
        \A value \in FieldValues \ {last.args.value} :
            BuildHash(last.args.record_type,
                      DictSet(EmptyDict, last.args.field, value)) # last.ret

\* the number 0 in a field of a patient, whose digest is the digest of the
\* string "0" in that field
C16_NumberHashesAsItsText ==
    /\ last.op = "build_hash"
    /\ last.args.record_type = "PATIENT"
    /\ last.args.value = PyInt(0)
    /\ last.ret = BuildHash("PATIENT", DictSet(EmptyDict, last.args.field, PyStr("0")))

-----------------------------------------------------------------------------
\* C17: whenever store_report hands bytes to the content store, they are the
\* ciphertext the encryption service produced from this call's file bytes, and
\* not the file bytes; the locator written into the ledger payload and the one
\* in the returned result are the locator the content store returned (none
\* where it returned an empty one), and a call that uploads nothing commits
\* no locator.
C17_OnlyCiphertextIsUploaded ==
    last.op = "store_report" =>
        /\ last.upload.called =>
              /\ \E iv \in RandomIVs :
                    last.upload.file_data
                       = encrypt_for_storage(last.args.file_data.by, iv).encrypted
              /\ last.upload.file_data # last.args.file_data.by
        /\ last.add.called =>
              LET locator == IF last.upload.called THEN last.upload.ret.ipfs_hash ELSE ""
              IN /\ DictGet(last.add.hash_payload, "ipfsHash", "") = locator
                 /\ DictGet(last.ret, "ipfsHash", "") = locator

C17_LocatorOfCiphertextCommitted ==
    /\ last.op = "store_report"
    /\ last.upload.called
    /\ last.upload.file_data = "aes256cbc(1111,AB)"
    /\ last.upload.ret.ipfs_hash = "QmA"
    /\ last.ret.success
    /\ last.ret.ipfsHash = "QmA"
    /\ ledger["report_1"].current.hashPayload.ipfsHash = "QmA"

-----------------------------------------------------------------------------
-----------------------------------------------------------------------------
\* C19: in simulation mode get_record_audit_trail of a key that has been
\* appended to returns success, the entries in the order they were appended
\* (the superseded ones oldest first, the current one last) and changesCount
\* equal to the number of appends to the key; of a key never appended to it
\* returns a failure with an error and no trail.
C19_AuditTrailIsChronological ==
    last.op = "get_record_audit_trail" =>
        LET key == last.args.record_id
        IN IF key \in DOMAIN appended
           THEN LET n == Len(appended[key])
                IN /\ last.ret.success
                   /\ last.ret.recordId = key
                   /\ last.ret.changesCount = n
                   /\ last.ret.history.xs = [i \in 1..n |-> appended[key][i].record]
                   /\ last.ret.history.xs[n] = ledger[key].current
           ELSE /\ ~last.ret.success
                /\ last.ret.error = "Record not found"
                /\ "history" \notin DOMAIN last.ret
                /\ "changesCount" \notin DOMAIN last.ret

C19_TrailOfTwoAppends ==
    /\ last.op = "get_record_audit_trail"
    /\ last.ret.success
    /\ last.ret.changesCount = 2
    /\ Len(appended[last.args.record_id]) = 2
    /\ last.ret.history.xs[1] # last.ret.history.xs[2]
    /\ last.ret.history.xs[2] = ledger[last.args.record_id].current

-----------------------------------------------------------------------------
C21_UploadFailureHasNoLocator ==
    last.op = "upload_file" =>
        /\ (/\ last.upload.requested
            /\ \/ last.http.kind = "exception"
               \/ last.http.kind = "response" /\ last.http.status_code # 200)
           => /\ ~last.upload.success
              /\ last.upload.ipfs_hash = ""
              /\ last.upload.error # ""
              /\ last.upload.raised = ""
        /\ last.upload.ipfs_hash # "" => last.upload.success

\* a local-provider upload answered with status 500 has failed with an error
C21_LocalUploadRefused ==
    /\ last.op = "upload_file"
    /\ last.cfg.provider = "local"
    /\ last.http.kind = "response"
    /\ last.http.status_code = 500
    /\ last.upload.requested
    /\ ~last.upload.success
    /\ last.upload.error = "Local IPFS upload failed: "

\* C22: for every plaintext byte string p (lengths 0, 1, 15, 16 and 17 included),
\* decrypting what encrypt produced with the IV it produced returns p, under both
\* storage conventions: decode_and_decrypt(encrypt_and_encode(p)) = p and
\* decrypt_from_storage(encrypt_for_storage(p)) = p.
C22_DecryptInvertsEncrypt ==
    /\ last.op = "decode_and_decrypt" => last.ret = Returned(last.file_data)
    /\ (/\ last.op = "decrypt_from_storage"
        /\ last.encrypted_data = last.stored.encrypted
        /\ last.iv_hex = last.stored.iv_hex)
       => last.ret = Returned(last.file_data)

\* a file of exactly one block came back from the base64 convention, its
\* ciphertext being two blocks after the IV
C22_WholeBlockRoundTrip ==
    /\ last.op = "decode_and_decrypt"
    /\ Len(last.file_data) = BLOCK_SIZE
    /\ Len(last.encoded_data) = 64
    /\ last.ret.raised = ""
    /\ last.ret.data = last.file_data

\* C23: decrypt never returns corrupted plaintext silently: given a wrong IV (wrong
\* length, or a 16-byte IV other than the one used to encrypt), a ciphertext whose
\* length is not a multiple of the block size, or one whose padding is invalid, it
\* fails with an error instead of returning bytes that differ from the plaintext.
C23_NoSilentCorruption ==
    /\ last.op = "decrypt_from_storage" =>
          \/ last.ret.raised # ""
          \/ last.ret.data = last.file_data
    /\ last.op = "download_report_file" =>
          \/ ~last.ret.success /\ last.ret.error # ""
          \/ last.ret.data = last.file_data

\* the stored ciphertext of a 17-byte file, decrypted with another 16-byte IV,
\* came back without an error as 17 bytes that are not the file
C23_WrongIVGarblesFirstBlock ==
    /\ last.op = "decrypt_from_storage"
    /\ Len(last.file_data) = 17
    /\ last.encrypted_data = last.stored.encrypted
    /\ last.iv_hex # last.stored.iv_hex
    /\ Len(last.iv_hex) = 2 * BLOCK_SIZE
    /\ last.ret.raised = ""
    /\ Len(last.ret.data) = 17
    /\ last.ret.data # last.file_data

\* C24: when the active backend lacks its configuration (content-store credentials
\* missing for the selected provider, or the external ledger's credential files
\* missing while not in simulation mode), the operation fails with a configuration
\* error before any network request or external process invocation is attempted.
C24_NoAttemptWithoutConfiguration ==
    /\ (last.op = "add_record_hash" /\ ~last.configured) =>
          /\ last.proc = NoProc
          /\ ~last.add.success
          /\ last.add.error # ""
    /\ (last.op = "upload_file" /\ ~IpfsIsConfigured(last.cfg)) =>
          /\ ~last.upload.requested
          /\ ~last.upload.success
          /\ last.upload.error # ""

\* with the credential files missing in external mode, add_record_hash started
\* the peer process and reported its write as a success
C24_PeerInvokedWithoutCredentials ==
    /\ ~simulation_mode
    /\ last.op = "add_record_hash"
    /\ ~last.configured
    /\ last.proc.kind = "exit"
    /\ last.add.success
    /\ last.add.tx_id = "ab12"

\* what a call of the peer process or of requests.post came to
ProcFailed(proc) == ~(proc.kind = "exit" /\ proc.returncode = 0)
HttpFailed(http) == ~(http.kind = "response" /\ http.status_code = 200)

\* C25: no operation retries: each store or verify call performs at most one
\* ledger invocation and at most one upload attempt, and a timeout or failure of
\* that attempt is returned to the caller as an error result.
C25_FailedAttemptIsReturned ==
    /\ (last.op \in SimpleStoreOps \cup {"store_report"} /\ last.add.called) =>
          /\ last.add.success = ~ProcFailed(last.proc)
          /\ ProcFailed(last.proc) =>
                /\ last.ret.success = FALSE
                /\ last.add.error # ""
                /\ last.ret.error = PyStr(last.add.error)
                /\ last.ret.transactionId = None
    /\ (last.op = "store_report" /\ last.upload.called /\ HttpFailed(last.http)) =>
          /\ ~last.add.called
          /\ last.ret.success = FALSE
          /\ last.upload.ret.error # ""
          /\ last.ret.error = PyStr("IPFS upload failed: " \o last.upload.ret.error)
    /\ (last.op \in VerifyOps /\ ProcFailed(last.proc)) =>
          /\ ~last.get.success
          /\ last.get.error # ""
          /\ last.ret.status = "ERROR"
          /\ last.ret.error = last.get.error

\* the peer process timed out under store_patient, and the call returned the
\* timeout with nothing written
C25_TimeoutReturnedByStore ==
    /\ last.op = "store_patient"
    /\ last.proc = ProcTimeout
    /\ last.ret.success = FALSE
    /\ last.ret.error = PyStr("Chaincode invoke timeout")
    /\ ~last.persisted
    /\ db = EmptyDict

\* C26: in external mode a write whose process exits with code 0 always reports
\* success with a non-empty transaction id: the id that follows the 'txid' marker
\* in the standard output when one is present, otherwise a locally synthesized
\* id; a non-zero exit code reports failure with the process's diagnostic output
\* in the error message and no transaction id.
C26_ExitZeroHasTransactionId ==
    (~simulation_mode /\ last.op = "add_record_hash" /\ last.proc.kind = "exit") =>
        IF last.proc.returncode = 0
        THEN /\ last.add.success
             /\ last.add.error = ""
             /\ last.add.tx_id # ""
             /\ ~Contains(Lower(last.proc.stdout), "txid") =>
                   \E t \in 0..MaxClock, rnd \in RandomHex8 :
                      last.add.tx_id = Strftime(t) \o "-" \o rnd
        ELSE /\ ~last.add.success
             /\ last.add.tx_id = ""
             /\ last.add.error = "Chaincode invoke failed: " \o last.proc.stderr

\* the process exited with code 0 and printed empty brackets after the marker:
\* the write is reported as a success whose transaction id is empty
C26_EmptyBracketsGiveEmptyId ==
    /\ ~simulation_mode
    /\ last.op = "add_record_hash"
    /\ last.proc = ProcExit(0, "committed txid: []", "")
    /\ last.add.success
    /\ last.add.tx_id = ""

\* the number of places of a list that hold the entry
Occurrences(list, entry) == Cardinality({i \in DOMAIN list : list[i] = entry})

\* C27: when several callers append to the same record key concurrently in the
\* simulation ledger, the membership check, the rotation of current into history
\* and the installation of the new current entry interleaving freely, no
\* acknowledged append is lost or duplicated: once all appends have returned,
\* history + [current] contains each appended entry exactly once.
C27_NoAppendLostOrDuplicated ==
    (\A c \in Callers : running[c].pc \in {"idle", "done"}) =>
        \A k \in DOMAIN appended :
            /\ k \in DOMAIN ledger
            /\ \A i \in DOMAIN appended[k] :
                  Occurrences(Append(ledger[k].history, ledger[k].current),
                              appended[k][i].record) = 1

\* two threads have appended to one key and both have returned; the key holds
\* one entry and no history
C27_AppendLost ==
    /\ \A c \in Callers : running[c].pc \in {"idle", "done"}
    /\ "patient_1" \in DOMAIN appended
    /\ Len(appended["patient_1"]) = 2
    /\ appended["patient_1"][1].record # appended["patient_1"][2].record
    /\ ledger["patient_1"].history = <<>>
    /\ ledger["patient_1"].current = appended["patient_1"][2].record

\* C28: whenever no store is in progress and a cross-reference row exists for
\* (recordType, recordId), its transaction id and digest equal those of the
\* current ledger entry under key '<type>_<id>'; also when several stores of the
\* same record ran concurrently and when an earlier cross-reference write failed.
C28_RowMatchesCurrentEntry ==
    \A key \in DOMAIN db :
        LET k == db[key].blockchain_record_id
        IN /\ k \in DOMAIN ledger
           /\ db[key].transaction_id = ledger[k].current.txID
           /\ db[key].record_hash =
                 DictGet(ledger[k].current.hashPayload, "hash",
                         DictGet(ledger[k].current.hashPayload, "formHash", ""))

\* a second store_patient of patient 1 was appended and acknowledged while its
\* cross-reference write failed: the row still has the digest of the first store
C28_RowLeftBehind ==
    /\ last.op = "store_patient"
    /\ last.ret.success
    /\ ~last.persisted
    /\ <<"PATIENT", 1>> \in DOMAIN db
    /\ Len(ledger["patient_1"].history) = 1
    /\ db[<<"PATIENT", 1>>].record_hash = ledger["patient_1"].history[1].hashPayload.hash
    /\ db[<<"PATIENT", 1>>].record_hash # ledger["patient_1"].current.hashPayload.hash
    /\ db[<<"PATIENT", 1>>].transaction_id # ledger["patient_1"].current.txID

\* the entries a key of the ledger holds, oldest first
EntriesOf(k) == Append(ledger[k].history, ledger[k].current)

\* the text is a non-empty run of decimal digits
IsDigits(text) ==
    /\ Len(text) > 0
    /\ \A i \in 1..Len(text) :
          SubSeq(text, i, i) \in {"0", "1", "2", "3", "4", "5", "6", "7", "8", "9"}

\* C29: in every state reachable through the store operations of the service,
\* each ledger entry (current and history) under a key has recordID equal to the
\* key, a key of the form '<lowercase record type>_<id>' matching its recordType,
\* a non-empty txID, and a payload of the shape of its type: exactly {hash} for
\* the five simple types, formHash (plus optional fileHash and ipfsHash) for REPORT.
C29_EntriesAreWellFormed ==
    \A k \in DOMAIN ledger :
        \A i \in DOMAIN EntriesOf(k) :
            LET entry == EntriesOf(k)[i]
                prefix == Lower(entry.recordType) \o "_"
            IN /\ entry.recordID = k
               /\ entry.recordType \in RecordTypes
               /\ Len(k) > Len(prefix)
               /\ SubSeq(k, 1, Len(prefix)) = prefix
               /\ IsDigits(SubSeq(k, Len(prefix) + 1, Len(k)))
               /\ entry.txID # ""
               /\ IF entry.recordType = "REPORT"
                  THEN /\ "formHash" \in DOMAIN entry.hashPayload
                       /\ DOMAIN entry.hashPayload \subseteq {"formHash", "fileHash", "ipfsHash"}
                  ELSE DOMAIN entry.hashPayload = {"hash"}

\* the key of a report holds an entry with all three payload fields over a
\* superseded entry with the form digest alone
C29_ReportWithFileOverFormOnly ==
    /\ "report_1" \in DOMAIN ledger
    /\ DOMAIN ledger["report_1"].current.hashPayload = {"formHash", "fileHash", "ipfsHash"}
    /\ Len(ledger["report_1"].history) = 1
    /\ DOMAIN ledger["report_1"].history[1].hashPayload = {"formHash"}

ReadOps ==
    {"get_record_hash", "get_record_history", "verify_hash", "get_records_by_patient",
     "get_records_by_type"} \cup VerifyOps

\* C30: an append to record key k leaves the current entry and history of every
\* other key unchanged, and the read operations (get, getHistory, verifyHash,
\* getBySubject, getByType and every verify* of the integrity service) leave the
\* whole ledger unchanged.
C30_AppendTouchesOneKeyReadsNone ==
    [][/\ \A k \in DOMAIN ledger :
             /\ k \in DOMAIN ledger'
             /\ ledger'[k] # ledger[k] =>
                   /\ last'.op = "add_record_hash"
                   /\ last'.args.record_id = k
       /\ DOMAIN ledger' # DOMAIN ledger =>
             /\ last'.op = "add_record_hash"
             /\ DOMAIN ledger' = DOMAIN ledger \cup {last'.args.record_id}
       /\ last'.op \in ReadOps => ledger' = ledger]_vars

\* an append to visit_1 made while patient_1 holds a current entry and a
\* history, followed by a read by type that returned an entry
C30_ReadAfterAppendBesideAnotherKey ==
    /\ last.op = "get_records_by_type"
    /\ last.get.data.xs # <<>>
    /\ "visit_1" \in DOMAIN ledger
    /\ "patient_1" \in DOMAIN ledger
    /\ Len(ledger["patient_1"].history) = 1
====
